---- MODULE Spec2Model ----
(***************************************************************************)
(* Dose-kinetics and reactivity back end of the chemical web application.  *)
(*                                                                         *)
(* Seven programs are modelled, each as its own specification over the     *)
(* same variables:                                                         *)
(*   SpecGas    analysis_core.analyzeAllAegls / analyzeSingleAegl          *)
(*   SpecAq     aqueous_code.run_all_aegl / _run_single_from_row           *)
(*   SpecReact  analysis_core.analyze_reactivity / predict_kr              *)
(*   SpecSolve  aqueous_code.findTimeToDose, statement by statement        *)
(*   SpecPure   the steady-state flux steps and the exposure-hour lookups   *)
(*   SpecApp    app.getCompoundAnalysis / main.getCompoundAnalysis          *)
(*   SpecCache  analysis_core.getGlobalScatterGraph and its module cache    *)
(*                                                                         *)
(* Python values are tagged records [k, v]: k is the kind ("num", "nan",   *)
(* "none", "absent", "str", ...) and v the integer payload of a number.    *)
(* "absent" stands for a key that is not in the dict.                      *)
(***************************************************************************)
EXTENDS Integers, Sequences, FiniteSets, TLC

VARIABLES
    compound,        \* gas: the compound dict handed to analyzeAllAegls
    selectedTimes,   \* gas: the selectedTimes argument (None or a list)
    pc,              \* gas: position inside analyzeAllAegls
    timesToAnalyze,  \* gas: the list built at analysis_core.py:415
    level,           \* gas: loop variable of "for level in range(1, 4)"
    tIdx,            \* gas: index of timeStr inside timesToAnalyze
    allResults,      \* gas: the list returned by analyzeAllAegls
    exc,             \* gas: exception that escaped analyzeAllAegls, or NoExc
    lastCall,        \* gas: the latest analyzeSingleAegl call and what newton did
    row,             \* aqueous: the row dict run_all_aegl looked up
    aqPc,            \* aqueous: position inside run_all_aegl
    available,       \* aqueous: list_available_aegl_targets(row)
    aIdx,            \* aqueous: index of the current target in available
    merged,          \* aqueous: the dict run_all_aegl returns (its keys)
    printed,         \* aqueous: what the run printed for each target, in order
    lastRun,         \* aqueous: the latest _run_single_from_row call
    aqExc,           \* aqueous: exception that escaped run_all_aegl, or NoExc
    rCompound,       \* reactivity: the record handed to predict_kr
    rPc,             \* reactivity: position of the call
    reactivity,      \* reactivity: what analyze_reactivity returned
    krPrediction,    \* reactivity: what predict_kr returned
    rExc,            \* reactivity: exception that escaped, or NoExc
    sArgs,           \* solve: x0, isVapor and what f and the SciPy solvers do
    sPc,             \* solve: position inside findTimeToDose
    sHi,             \* solve: the high bound, max(1.0, x0) * 1.5^expansions
    sTries,          \* solve: the counter of the expansion loop
    solverCalls,     \* solve: the root_scalar calls made, in order
    sOut,            \* solve: what the call returned or raised
    fnArgs,          \* pure: the function applied and its arguments
    fnPc,            \* pure: "start" before the call, "done" after it
    fnOut,           \* pure: what the call returned or raised
    appRow,          \* app: what the database or PubChem holds for the name
    appCompound,     \* app: what build_compound returned for the name
    appPc,           \* app: position inside getCompoundAnalysis
    appOut,          \* app: the dict returned so far, the exception raised
    csvFile,         \* cache: Database/combined_chemicals.csv on disk
    compound_db,     \* cache: the DataFrame data_loader read at import
    global_scatter_cache,  \* cache: the module-level _global_scatter_cache
    lastChart        \* cache: the latest return of getGlobalScatterGraph

gasVars == <<compound, selectedTimes, pc, timesToAnalyze, level, tIdx,
             allResults, exc, lastCall>>

aqVars == <<row, aqPc, available, aIdx, merged, printed, lastRun, aqExc>>

reactVars == <<rCompound, rPc, reactivity, krPrediction, rExc>>

solveVars == <<sArgs, sPc, sHi, sTries, solverCalls, sOut>>

pureVars == <<fnArgs, fnPc, fnOut>>

appVars == <<appRow, appCompound, appPc, appOut>>

cacheVars == <<csvFile, compound_db, global_scatter_cache, lastChart>>

vars == <<compound, selectedTimes, pc, timesToAnalyze, level, tIdx,
          allResults, exc, lastCall,
          row, aqPc, available, aIdx, merged, printed, lastRun, aqExc,
          rCompound, rPc, reactivity, krPrediction, rExc,
          sArgs, sPc, sHi, sTries, solverCalls, sOut,
          fnArgs, fnPc, fnOut, appRow, appCompound, appPc, appOut,
          csvFile, compound_db, global_scatter_cache, lastChart>>

-----------------------------------------------------------------------------
(* Bounds of the model *)

\* largest number of AEGL keys in a record
MaxKeys == 2
\* largest length of the selectedTimes list
MaxReq == 2
\* largest number of times the data file is written
MaxMtime == 3

-----------------------------------------------------------------------------
(* Python values *)

Num(n) == [k |-> "num", v |-> n]
NaN    == [k |-> "nan", v |-> 0]
None   == [k |-> "none", v |-> 0]
Absent == [k |-> "absent", v |-> 0]
Str    == [k |-> "str", v |-> 0]

IsNum(x) == x.k = "num"

\* isinstance(value, (int, float)): True for numbers and for float('nan')
IsIntOrFloat(x) == x.k \in {"num", "nan"}

\* value > 0 on an int/float: every comparison with NaN is False
GreaterThanZero(x) == x.k = "num" /\ x.v > 0

\* "key in compound"
HasKey(x) == x.k # "absent"

\* compound.get(key): None for a missing key
Get(x) == IF x.k = "absent" THEN None ELSE x

-----------------------------------------------------------------------------
(* Sequence helpers *)

Range(s) == {s[i] : i \in DOMAIN s}

\* all sequences over S of length at most n
SeqUpTo(S, n) == UNION {[1..m -> S] : m \in 0..n}

\* the sequences that list every element of the finite set S exactly once
Perms(S) == {s \in [1..Cardinality(S) -> S] : Range(s) = S}

IsInjective(s) == \A i, j \in DOMAIN s : s[i] = s[j] => i = j

-----------------------------------------------------------------------------
(* analysis_core.py: the gas-phase dose solver *)

\* the five AEGL duration labels
DurationLabels == {"8hr", "4hr", "60min", "30min", "10min"}

\* range(1, 4)
AeglLevels == 1..3

NoExc == "none"
NotAvailable == [k |-> "NotAvailable", v |-> 0]
FindRootFailed == [k |-> "FindRootFailed", v |-> 0]
RuntimeError == [k |-> "RuntimeError", v |-> 0]
OverflowError == [k |-> "OverflowError", v |-> 0]

\* the selectedTimes argument: None, or a list of duration labels
NoTimes == [given |-> FALSE, list |-> <<>>]
TimesList(s) == [given |-> TRUE, list |-> s]

\* the sequence s without the later repeats of its elements
\* (list(OrderedDict.fromkeys(s)))
RECURSIVE OrderedUnique(_)
OrderedUnique(s) ==
    IF s = <<>> THEN <<>>
    ELSE LET front == OrderedUnique(SubSeq(s, 1, Len(s) - 1))
             last  == s[Len(s)]
         IN  IF last \in Range(front) THEN front ELSE Append(front, last)

\* compound.aegl lists the record's keys "AEGL<tier>_<dur>" in dict order;
\* every such key matches AEGL\d+_(.+) and no other key of a record does
getAvailableAeglTimes(c) ==
    OrderedUnique([i \in DOMAIN c.aegl |-> c.aegl[i].dur])

\* compound[f"AEGL{level}_{timeStr}"], Absent when the key is not in the dict
AeglEntry(c, lvl, timeStr) ==
    IF \E i \in DOMAIN c.aegl : c.aegl[i].tier = lvl /\ c.aegl[i].dur = timeStr
    THEN c.aegl[CHOOSE i \in DOMAIN c.aegl :
                    c.aegl[i].tier = lvl /\ c.aegl[i].dur = timeStr].val
    ELSE Absent

\* getAeglValue with "value >= 0" for "value > 0"
getAeglValue_ZeroAccepted(c, lvl, timeStr) ==
    LET value == AeglEntry(c, lvl, timeStr)
    IN  IF HasKey(value)
        THEN IF IsIntOrFloat(value) /\ value.k = "num" /\ value.v >= 0
             THEN value
             ELSE NotAvailable
        ELSE NotAvailable

getAeglValue(c, lvl, timeStr) ==
    LET value == AeglEntry(c, lvl, timeStr)
    IN  IF HasKey(value)
        THEN IF IsIntOrFloat(value) /\ GreaterThanZero(value)
             THEN value
             ELSE NotAvailable
        ELSE NotAvailable

\* hours as a fraction <<numerator, denominator>>
timeStringToHours(timeStr) ==
    CASE timeStr = "8hr"   -> <<8, 1>>
      [] timeStr = "4hr"   -> <<4, 1>>
      [] timeStr = "60min" -> <<1, 1>>
      [] timeStr = "30min" -> <<1, 2>>
      [] timeStr = "10min" -> <<1, 6>>
      [] OTHER             -> <<8, 1>>

\* logKow after the logP fallback of analysis_core.py:195-199
ResolvedLogKow(c) ==
    IF Get(c.logKow) = None /\ HasKey(c.logP) THEN c.logP ELSE Get(c.logKow)

\* The first exception raised by analyzeSingleAegl between the limit lookup and
\* the root search, in statement order, or NoExc
PreSolveFault(c) ==
    IF ~HasKey(c.MW) THEN "KeyError"                       \* compound["MW"]
    ELSE IF ~HasKey(c.henryConstant) THEN "KeyError"       \* compound["henryConstant"]
    ELSE IF ~HasKey(c.vaporPressure) THEN "KeyError"       \* compound["vaporPressure"]
    ELSE IF ~HasKey(c.solubility) THEN "KeyError"          \* compound["solubility"]
    ELSE IF c.solubility = None THEN "TypeError"           \* None / 1000
    ELSE IF ResolvedLogKow(c) = None THEN "TypeError"      \* 10 ** None
    ELSE IF c.MW = None THEN "TypeError"                   \* aegl * 24.45 / None
    ELSE IF c.MW = Num(0) THEN "ZeroDivisionError"         \* aegl * 24.45 / 0
    ELSE IF c.henryConstant = None THEN "TypeError"        \* 1 / None
    ELSE IF c.henryConstant = Num(0) THEN "ZeroDivisionError"  \* 1 / 0
    ELSE NoExc

\* What scipy.optimize.newton(f, 100.0) can do: return a root estimate (a float of
\* any sign, NaN included) or raise.  The series arithmetic is not modelled, so
\* the outcome is a choice among these.
NewtonOutcomes == {Num(7), Num(0), Num(-3), NaN, RuntimeError, OverflowError}

\* TReachOf without the "> 0" test of line 271
TReachOf_NoSignTest(sol) ==
    LET tReach == IF sol \in {RuntimeError, OverflowError} THEN None
                  ELSE IF IsIntOrFloat(sol) THEN sol
                  ELSE None
    IN  IF tReach # None THEN tReach ELSE FindRootFailed

\* analysis_core.py:269-289
TReachOf(sol) ==
    LET tReach == IF sol \in {RuntimeError, OverflowError} THEN None
                  ELSE IF IsIntOrFloat(sol) /\ GreaterThanZero(sol) THEN sol
                  ELSE None
    IN  IF tReach # None THEN tReach ELSE FindRootFailed

\* The exception raised after the root search, or NoExc: the curve figures are
\* titled with compound['Name'] (line 308), the record reads compound["Name"]
\* and compound["CAS"] (lines 371-372)
PostSolveFault(c, tReach) ==
    IF ~HasKey(c.Name) THEN "KeyError"
    ELSE IF ~HasKey(c.CAS) THEN "KeyError"
    ELSE NoExc

\* whether analyzeSingleAegl gets as far as calling newton
ReachesSolve(c, lvl, timeStr) ==
    getAeglValue(c, lvl, timeStr) # NotAvailable /\ PreSolveFault(c) = NoExc

\* the initial guess of the root search of analyzeSingleAegl
NewtonGuess == 100

\* the solver calls of one analyzeSingleAegl call, in order: a call that gets as
\* far as the search makes one, newton(f, 100.0), which without fprime is the
\* secant iteration started at the guess (analysis_core.py:269-270)
SearchOf(solved) ==
    IF solved THEN <<[method |-> "newton", x0 |-> NewtonGuess]>> ELSE <<>>

NoCall == [level |-> 0, timeStr |-> "", kind |-> "", solved |-> FALSE, sol |-> None,
           search |-> <<>>]

NoRec == [aeglLevel |-> 0, timeStr |-> "", aegl |-> None,
          exposureTimeHours |-> <<0, 1>>, tReach |-> None, graphs |-> ""]

\* analyzeSingleAegl(compound, aeglLevel, timeStr) when newton behaves as sol.
\* kind: "NotAvailable" | "raise" | "result"; solved: whether newton was called
analyzeSingleAegl(c, lvl, timeStr, sol) ==
    LET aegl == getAeglValue(c, lvl, timeStr)
    IN  IF aegl = NotAvailable
        THEN [kind |-> "NotAvailable", exc |-> NoExc, solved |-> FALSE, rec |-> NoRec]
        ELSE IF PreSolveFault(c) # NoExc
        THEN [kind |-> "raise", exc |-> PreSolveFault(c), solved |-> FALSE, rec |-> NoRec]
        ELSE LET tReach == TReachOf(sol)
             IN  IF PostSolveFault(c, tReach) # NoExc
                 THEN [kind |-> "raise", exc |-> PostSolveFault(c, tReach),
                       solved |-> TRUE, rec |-> NoRec]
                 ELSE [kind |-> "result", exc |-> NoExc, solved |-> TRUE,
                       rec |-> [aeglLevel |-> lvl, timeStr |-> timeStr, aegl |-> aegl,
                                exposureTimeHours |-> timeStringToHours(timeStr),
                                tReach |-> tReach,
                                graphs |-> IF tReach = FindRootFailed
                                           THEN "tReach calculation failed"
                                           ELSE "curves"]]

\* The order in which list(set(a) & set(b)) lists the common elements: the
\* iteration order of a set of str depends on the per-process hash seed, so it is
\* any order of the intersection
SetIntersectionOrders(a, b) == Perms(Range(a) \cap Range(b))

\* analysis_core.py:399-415
AnalyzeAllAeglsBegin ==
    /\ pc = "start"
    /\ LET availableTimes == getAvailableAeglTimes(compound)
           flattened == IF ~selectedTimes.given THEN availableTimes
                        ELSE IF Len(selectedTimes.list) > 0 THEN selectedTimes.list
                        ELSE <<>>
       IN  \E order \in SetIntersectionOrders(flattened, availableTimes) :
              /\ timesToAnalyze' = order
              /\ pc' = IF Len(order) > 0 THEN "loop" ELSE "return"
    /\ level' = 1
    /\ tIdx' = 1
    /\ UNCHANGED <<compound, selectedTimes, allResults, exc, lastCall>>
    /\ UNCHANGED <<aqVars, reactVars, solveVars, pureVars, appVars, cacheVars>>

\* one pass of the loop body, analysis_core.py:427-432
AnalyzeAllAeglsIter ==
    /\ pc = "loop"
    /\ \E sol \in IF ReachesSolve(compound, level, timesToAnalyze[tIdx])
                   THEN NewtonOutcomes ELSE {None} :
          LET timeStr == timesToAnalyze[tIdx]
              result  == analyzeSingleAegl(compound, level, timeStr, sol)
              last    == tIdx = Len(timesToAnalyze)
          IN  /\ lastCall' = [level |-> level, timeStr |-> timeStr,
                               kind |-> result.kind, solved |-> result.solved,
                               sol |-> IF result.solved THEN sol ELSE None,
                               search |-> SearchOf(result.solved)]
              /\ IF result.kind = "raise"
                 THEN /\ exc' = result.exc
                      /\ pc' = "raised"
                      /\ UNCHANGED <<allResults, level, tIdx>>
                 ELSE /\ allResults' = IF result.kind = "result"
                                       THEN Append(allResults, result.rec)
                                       ELSE allResults
                      /\ tIdx' = IF last THEN 1 ELSE tIdx + 1
                      /\ level' = IF last THEN level + 1 ELSE level
                      /\ pc' = IF last /\ level = 3 THEN "return" ELSE "loop"
                      /\ UNCHANGED exc
    /\ UNCHANGED <<compound, selectedTimes, timesToAnalyze>>
    /\ UNCHANGED <<aqVars, reactVars, solveVars, pureVars, appVars, cacheVars>>

\* return allResults, analysis_core.py:462
AnalyzeAllAeglsReturn ==
    /\ pc = "return"
    /\ pc' = "returned"
    /\ UNCHANGED <<compound, selectedTimes, timesToAnalyze, level, tIdx,
                   allResults, exc, lastCall>>
    /\ UNCHANGED <<aqVars, reactVars, solveVars, pureVars, appVars, cacheVars>>

NextGas == AnalyzeAllAeglsBegin \/ AnalyzeAllAeglsIter \/ AnalyzeAllAeglsReturn

-----------------------------------------------------------------------------
(* The records and argument lists the gas-phase runs are checked on *)

\* duration labels of the AEGL keys of a record, and of the selectedTimes lists
KeyDurations == {"8hr", "10min"}
ReqDurations == {"8hr", "10min"}

\* values of an AEGL cell: a positive limit, zero, a negative number, NaN (an
\* empty CSV cell) and None
LimitValues == {Num(2), Num(0), Num(-1), NaN, None}

AeglCells == [tier : AeglLevels, dur : KeyDurations, val : LimitValues]

\* the AEGL part of a dict: at most MaxKeys keys, no key twice, in any order
AeglDicts ==
    {d \in SeqUpTo(AeglCells, MaxKeys) :
        \A i, j \in DOMAIN d :
            (d[i].tier = d[j].tier /\ d[i].dur = d[j].dur) => i = j}

\* a record with every parameter the solver reads
FullRecord(d) ==
    [aegl |-> d, MW |-> Num(140), logKow |-> Num(1), logP |-> Num(1),
     henryConstant |-> Num(3), vaporPressure |-> Num(5), solubility |-> Num(1000),
     Name |-> Str, CAS |-> Str]

\* the same record with one parameter missing (key absent), null or zero
DefectiveRecords(d) ==
    LET c == FullRecord(d)
    IN  {[c EXCEPT !.MW = x] : x \in {Absent, None, Num(0)}}
        \cup {[c EXCEPT !.logKow = x, !.logP = y] :
                 x \in {Absent, None}, y \in {Absent, None, Num(1)}}
        \cup {[c EXCEPT !.henryConstant = x] : x \in {Absent, None, Num(0), NaN}}
        \cup {[c EXCEPT !.vaporPressure = x] : x \in {Absent, None}}
        \cup {[c EXCEPT !.solubility = x] : x \in {Absent, None}}
        \cup {[c EXCEPT !.Name = Absent], [c EXCEPT !.CAS = Absent],
              [c EXCEPT !.CAS = None]}

\* the list getCompoundAnalysis passes (app.py:34, main.py:15)
AppTimes == TimesList(<<"8hr", "4hr", "60min", "30min", "10min">>)

TimesArguments == {NoTimes} \cup {TimesList(s) : s \in SeqUpTo(ReqDurations, MaxReq)}

\* position of a duration among the columns of a data file
DurationRank(dur) ==
    CASE dur = "8hr" -> 1 [] dur = "4hr" -> 2 [] dur = "60min" -> 3
      [] dur = "30min" -> 4 [] dur = "10min" -> 5 [] OTHER -> 6

\* the keys of d stand in the order of the columns of a data file, tier by tier
InColumnOrder(d) ==
    \A i, j \in DOMAIN d :
        i < j => \/ d[i].tier < d[j].tier
                 \/ /\ d[i].tier = d[j].tier
                    /\ DurationRank(d[i].dur) < DurationRank(d[j].dur)

AllLimitsValid(d) == \A i \in DOMAIN d : d[i].val = Num(2)

-----------------------------------------------------------------------------
(* Exact fractions <<numerator, denominator>>; a zero denominator is NaN *)

RECURSIVE GCD(_, _)
GCD(a, b) == IF b = 0 THEN a ELSE GCD(b, a % b)

Abs(n) == IF n < 0 THEN -n ELSE n

NaNQ == <<0, 0>>
IsNaNQ(q) == q[2] = 0

Norm(q) ==
    IF q[2] = 0 THEN NaNQ
    ELSE LET g == GCD(Abs(q[1]), Abs(q[2]))
             sgn == IF q[2] < 0 THEN -1 ELSE 1
         IN  <<sgn * (q[1] \div g), sgn * (q[2] \div g)>>

Frac(n, d) == Norm(<<n, d>>)
RatAdd(a, b) == IF IsNaNQ(a) \/ IsNaNQ(b) THEN NaNQ
                ELSE Norm(<<a[1] * b[2] + b[1] * a[2], a[2] * b[2]>>)
RatMul(a, b) == IF IsNaNQ(a) \/ IsNaNQ(b) THEN NaNQ
                ELSE Norm(<<a[1] * b[1], a[2] * b[2]>>)

\* a number with four decimals, n/10000 (150.0001 is Dec4(1500001))
Dec4(n) == [k |-> "dec4", v |-> n]

\* float(x) of a number or NaN
ToFloat(x) ==
    IF x.k = "num" THEN <<x.v, 1>>
    ELSE IF x.k = "dec4" THEN Frac(x.v, 10000)
    ELSE NaNQ

\* A product the code forms whose digits do not fit a machine integer is kept
\* as the sequence of its factors, in the order the code multiplies them
ProductIsNaN(fs) == \E i \in DOMAIN fs : IsNaNQ(fs[i])

-----------------------------------------------------------------------------
(* aqueous_code.py: the vapor/liquid dose solver *)

\* r = 0.0821 and t = 298.15 (aqueous_code.py:72-73)
GasConstantR == Frac(821, 10000)
TemperatureT == Frac(29815, 100)

\* bodySurfaceAreaCm2 (aqueous_code.py:85) and the default exposedFraction 0.10
BodySurfaceAreaCm2 == 18150
ExposedFractionPct == 10

FigNames == {"vaporAbsorption", "liquidAbsorption", "vaporFlux", "liquidFlux"}

\* AEGL_COL_RE: ^AEGL([123])_(8hr|4hr|60min|30min|10min)$
MatchesAeglColRe(cell) == cell.tier \in {1, 2, 3} /\ cell.dur \in DurationLabels

\* pd.isna(val)
IsNa(x) == x.k \in {"nan", "none"}

\* the sort key of list_available_aegl_targets: (tier, order.get(duration, 99))
TargetOrder(dur) ==
    CASE dur = "8hr" -> 0 [] dur = "4hr" -> 1 [] dur = "60min" -> 2
      [] dur = "30min" -> 3 [] dur = "10min" -> 4 [] OTHER -> 99

TargetBefore_DurationFirst(a, b) ==
    \/ TargetOrder(a[2]) < TargetOrder(b[2])
    \/ TargetOrder(a[2]) = TargetOrder(b[2]) /\ a[1] < b[1]

TargetBefore(a, b) ==
    \/ a[1] < b[1]
    \/ a[1] = b[1] /\ TargetOrder(a[2]) < TargetOrder(b[2])

\* list_available_aegl_targets(rowDict): the matching keys whose value is not
\* NaN, sorted (the keys of a dict are distinct, so the sort has no ties)
list_available_aegl_targets(r) ==
    LET targets == {<<r.aegl[i].tier, r.aegl[i].dur>> :
                       i \in {j \in DOMAIN r.aegl :
                                 MatchesAeglColRe(r.aegl[j]) /\ ~IsNa(r.aegl[j].val)}}
    IN  CHOOSE s \in Perms(targets) :
            \A i, j \in DOMAIN s : i < j => TargetBefore(s[i], s[j])

\* pickAegl(rowDict, aeglTier, duration)
pickAegl(r, tier, dur) ==
    LET val == AeglEntry(r, tier, dur)
    IN  IF ~HasKey(val) THEN [exc |-> "ValueError", aegl |-> NaNQ]
        ELSE IF IsNa(val) THEN [exc |-> "ValueError", aegl |-> NaNQ]
        ELSE [exc |-> NoExc, aegl |-> ToFloat(val)]

\* 10 ** logKow, for the whole exponents of the model
Pow10(q) ==
    IF IsNaNQ(q) THEN NaNQ
    ELSE IF q[1] >= 0 THEN <<10 ^ q[1], 1>> ELSE <<1, 10 ^ (-q[1])>>

\* kow ** 0.81 and kow ** 0.27 are exact only for kow = 1, the one partition
\* ratio of the model's rows
PowOfKow(kow) == IF IsNaNQ(kow) THEN NaNQ ELSE <<1, 1>>

NoParams == [mw |-> NaNQ, logKow |-> NaNQ, kow |-> NaNQ, kscw |-> NaNQ,
             concComptox |-> NaNQ, cv |-> NaNQ, hcp |-> NaNQ,
             kwg |-> <<>>, kscg |-> <<>>, a1 |-> NaNQ, nUp |-> 0]

\* initParamsFromRow with the fallback branch of lines 79-81 left out
initParamsFromRow_NoFallback(r, aegl) ==
    IF ~HasKey(r.MW) THEN [exc |-> "KeyError", p |-> NoParams]
    ELSE IF r.MW = None THEN [exc |-> "TypeError", p |-> NoParams]
    ELSE IF ~HasKey(r.logP) THEN [exc |-> "KeyError", p |-> NoParams]
    ELSE IF r.logP = None THEN [exc |-> "TypeError", p |-> NoParams]
    ELSE IF r.MW = Num(0) THEN [exc |-> "ZeroDivisionError", p |-> NoParams]
    ELSE IF Get(r.henryConstant) = None THEN [exc |-> "TypeError", p |-> NoParams]
    ELSE IF r.henryConstant = Num(0) THEN [exc |-> "ZeroDivisionError", p |-> NoParams]
    ELSE LET mw == ToFloat(r.MW)
             logKow == ToFloat(r.logP)
             kow == Pow10(logKow)
             kscw == RatAdd(RatAdd(RatMul(Frac(4, 100), PowOfKow(kow)),
                                   RatMul(Frac(406, 100), PowOfKow(kow))),
                            Frac(359, 1000))
             H == ToFloat(r.henryConstant)
             hcp == IF IsNaNQ(H) THEN NaNQ ELSE RatMul(Frac(H[2], H[1]), Frac(1, 1000))
             kwg == <<hcp, GasConstantR, TemperatureT>>
         IN  [exc |-> NoExc,
              p |-> [mw |-> mw, logKow |-> logKow, kow |-> kow, kscw |-> kscw,
                     concComptox |-> aegl, cv |-> RatMul(Frac(1, 1000000), aegl),
                     hcp |-> hcp, kwg |-> kwg, kscg |-> <<kscw>> \o kwg,
                     a1 |-> Frac(ExposedFractionPct * BodySurfaceAreaCm2, 100),
                     nUp |-> 10]]

\* initParamsFromRow(row, aeglMgPerM3): the exception it raises, or the
\* parameters.  pscw, dsc (powers of ten with fractional exponents) are not
\* represented; they are NaN exactly when mw or logKow is.
initParamsFromRow(r, aegl) ==
    IF ~HasKey(r.MW) THEN [exc |-> "KeyError", p |-> NoParams]         \* row["MW"]
    ELSE IF r.MW = None THEN [exc |-> "TypeError", p |-> NoParams]     \* float(None)
    ELSE IF ~HasKey(r.logP) THEN [exc |-> "KeyError", p |-> NoParams]  \* row["logP"]
    ELSE IF r.logP = None THEN [exc |-> "TypeError", p |-> NoParams]
    ELSE IF r.MW = Num(0) THEN [exc |-> "ZeroDivisionError", p |-> NoParams]  \* csPpm
    ELSE LET mw == ToFloat(r.MW)
             logKow == ToFloat(r.logP)
             kow == Pow10(logKow)
             kscw == RatAdd(RatAdd(RatMul(Frac(4, 100), PowOfKow(kow)),
                                   RatMul(Frac(406, 100), PowOfKow(kow))),
                            Frac(359, 1000))
             H == Get(r.henryConstant)
             hcp == IF H # None /\ ~IsNa(H) /\ ToFloat(H)[1] > 0
                    THEN RatMul(Frac(ToFloat(H)[2], ToFloat(H)[1]), Frac(1, 1000))
                    ELSE Frac(1, 1000)
             kwg == <<hcp, GasConstantR, TemperatureT>>
         IN  [exc |-> NoExc,
              p |-> [mw |-> mw, logKow |-> logKow, kow |-> kow, kscw |-> kscw,
                     concComptox |-> aegl, cv |-> RatMul(Frac(1, 1000000), aegl),
                     hcp |-> hcp, kwg |-> kwg, kscg |-> <<kscw>> \o kwg,
                     a1 |-> Frac(ExposedFractionPct * BodySurfaceAreaCm2, 100),
                     nUp |-> 10]]

\* the bracket expansion of findTimeToDose multiplies hi at most 40 times
MaxTries == 40

NoCross == 0 - 1

\* How f = Q - targetDose and the SciPy solvers behave on one call, which the
\* model does not compute: cross is the number of expansions of hi after which
\* f(lo) * f(hi) <= 0 first holds (NoCross: not within MaxTries); brentq is
\* whether the bracketed solve converged; newton is what
\* root_scalar(method="newton") does: a converged root >= 0 ("root"), a
\* converged root < 0 ("negative"), no convergence ("notConverged") or a raise
\* ("ValueError": SciPy releases that demand fprime)
\* A field the code does not consult is held at one value: brentq is not called
\* without a bracket, newton is not called after brentq converged.
SolveOracles ==
    {o \in [cross : {0, 2, NoCross}, brentq : BOOLEAN,
            newton : {"root", "negative", "notConverged", "ValueError"}] :
        /\ o.cross = NoCross => ~o.brentq
        /\ (o.cross # NoCross /\ o.brentq) => o.newton = "root"}

\* findTimeToDose(targetDose, dif, h, cv, a1, k, nUp, x0, isVapor) on parameters
\* p for a limit aegl, k being p.kscg (vapor) or <<p.kscw>> (liquid).
\*   a NaN among dif, cv, k: f is NaN everywhere, no product of NaN is > 0 or
\*     <= 0, so neither the loop nor brentq runs and newton cannot converge;
\*   a zero limit: cv = 0 and targetDose = 0, f is 0 everywhere, f(lo)*f(hi) = 0
\*     and brentq returns lo = 0 at once;
\*   otherwise o decides.
findTimeToDose(p, aegl, k, o) ==
    LET isNaN == IsNaNQ(p.mw) \/ IsNaNQ(p.logKow) \/ IsNaNQ(p.cv) \/ ProductIsNaN(k)
        isZero == ~isNaN /\ aegl[1] = 0
        tries == IF isNaN \/ isZero THEN 0
                 ELSE IF o.cross = NoCross THEN MaxTries ELSE o.cross
        bracketed == ~isNaN /\ (isZero \/ o.cross # NoCross)
        newton == IF isNaN /\ o.newton \in {"root", "negative"} THEN "notConverged"
                  ELSE o.newton
    IN  IF bracketed /\ (isZero \/ o.brentq)
        THEN [exc |-> NoExc, tries |-> tries, solver |-> "brentq",
              root |-> IF isZero THEN "zero" ELSE "nonnegative"]
        ELSE IF newton = "root"
        THEN [exc |-> NoExc, tries |-> tries, solver |-> "newton", root |-> "nonnegative"]
        ELSE IF newton = "ValueError"
        THEN [exc |-> "ValueError", tries |-> tries, solver |-> "newton", root |-> "none"]
        ELSE [exc |-> "RuntimeError", tries |-> tries, solver |-> "newton", root |-> "none"]

NoRun == [tier |-> 0, dur |-> "", stage |-> "", exc |-> NoExc, aegl |-> NaNQ,
          p |-> NoParams, tReach |-> "none", tReachL |-> "none"]

\* _run_single_from_row(row, aeglTier, duration, ...): the stage it ended in,
\* the exception it raised there (NoExc when it returned its four figures)
run_single_from_row(r, tier, dur, oV, oL) ==
    LET picked == pickAegl(r, tier, dur)
        init   == initParamsFromRow(r, picked.aegl)
        vapor  == findTimeToDose(init.p, picked.aegl, init.p.kscg, oV)
        liquid == findTimeToDose(init.p, picked.aegl, <<init.p.kscw>>, oL)
        base   == [NoRun EXCEPT !.tier = tier, !.dur = dur]
    IN  IF picked.exc # NoExc
        THEN [base EXCEPT !.stage = "pickAegl", !.exc = picked.exc]
        ELSE IF init.exc # NoExc
        THEN [base EXCEPT !.stage = "initParamsFromRow", !.exc = init.exc,
                          !.aegl = picked.aegl]
        ELSE IF dur \notin DurationLabels
        THEN [base EXCEPT !.stage = "durMap", !.exc = "ValueError",
                          !.aegl = picked.aegl, !.p = init.p]
        ELSE IF vapor.exc # NoExc
        THEN [base EXCEPT !.stage = "findTimeToDose vapor", !.exc = vapor.exc,
                          !.aegl = picked.aegl, !.p = init.p]
        ELSE IF liquid.exc # NoExc
        THEN [base EXCEPT !.stage = "findTimeToDose liquid", !.exc = liquid.exc,
                          !.aegl = picked.aegl, !.p = init.p, !.tReach = vapor.root]
        ELSE [base EXCEPT !.stage = "makePlotlyFigures", !.aegl = picked.aegl,
                          !.p = init.p, !.tReach = vapor.root, !.tReachL = liquid.root]

\* whether the call gets as far as the vapor root search, and the liquid one
ReachesVaporSolve(r, tier, dur) ==
    /\ pickAegl(r, tier, dur).exc = NoExc
    /\ initParamsFromRow(r, pickAegl(r, tier, dur).aegl).exc = NoExc
    /\ dur \in DurationLabels

AnyOracle == [cross |-> 0, brentq |-> TRUE, newton |-> "root"]

\* the oracles that make a difference to a root search of the target: none when
\* the search is not reached or the limit is zero (f is 0 everywhere), only
\* what newton does when MW or logP is NaN (no bracket)
OraclesOf(r, tier, dur) ==
    IF ~ReachesVaporSolve(r, tier, dur) THEN {AnyOracle}
    ELSE IF pickAegl(r, tier, dur).aegl[1] = 0 THEN {AnyOracle}
    ELSE IF r.MW = NaN \/ r.logP = NaN
    THEN {o \in SolveOracles : o.cross = NoCross /\ o.newton \in {"notConverged", "ValueError"}}
    ELSE SolveOracles

\* aqueous_code.py:318-322
RunAllAeglBegin ==
    /\ aqPc = "start"
    /\ available' = list_available_aegl_targets(row)
    /\ IF available' = <<>>
       THEN aqPc' = "raised" /\ aqExc' = "ValueError"
       ELSE aqPc' = "loop" /\ UNCHANGED aqExc
    /\ aIdx' = 1
    /\ UNCHANGED <<row, merged, printed, lastRun>>
    /\ UNCHANGED <<gasVars, reactVars, solveVars, pureVars, appVars, cacheVars>>

\* what one target leaves on standard output: the "[SKIP] AEGL<tier>_<dur>: <e>"
\* line of the handler (e being the message of the exception raised in stage),
\* or the summary _run_single_from_row prints before it returns
Printed(run, line) ==
    [tier |-> run.tier, dur |-> run.dur, line |-> line,
     stage |-> run.stage, e |-> run.exc]

\* the handler of one target, with "except Exception ... continue" replaced by a
\* re-raise
RunAllAeglTarget_Reraise(run) ==
    /\ lastRun' = run
    /\ IF run.exc # NoExc
       THEN /\ aqPc' = "raised"
            /\ aqExc' = run.exc
            /\ UNCHANGED <<merged, printed, aIdx>>
       ELSE /\ merged' = merged \cup {<<run.tier, run.dur, n>> : n \in FigNames}
            /\ printed' = Append(printed, Printed(run, "Model Summary"))
            /\ aIdx' = aIdx + 1
            /\ aqPc' = IF aIdx = Len(available) THEN "return" ELSE "loop"
            /\ UNCHANGED aqExc

\* the handler of one target, merging the two vapor figures as soon as the
\* vapor root search of the target has succeeded
RunAllAeglTarget_VaporKept(run) ==
    /\ lastRun' = run
    /\ IF run.exc # NoExc
       THEN /\ printed' = Append(printed, Printed(run, "[SKIP]"))
            /\ merged' = IF run.stage = "findTimeToDose liquid"
                         THEN merged \cup {<<run.tier, run.dur, n>> :
                                              n \in {"vaporAbsorption", "vaporFlux"}}
                         ELSE merged
       ELSE /\ printed' = Append(printed, Printed(run, "Model Summary"))
            /\ merged' = merged \cup {<<run.tier, run.dur, n>> : n \in FigNames}
    /\ aIdx' = aIdx + 1
    /\ aqPc' = IF aIdx = Len(available) THEN "return" ELSE "loop"
    /\ UNCHANGED aqExc

\* one pass of "for tier, dur in available" (aqueous_code.py:323-331) whose
\* _run_single_from_row call ended as run
RunAllAeglTarget(run) ==
    /\ lastRun' = run
    /\ IF run.exc # NoExc
       THEN /\ printed' = Append(printed, Printed(run, "[SKIP]"))
            /\ UNCHANGED merged
       ELSE /\ printed' = Append(printed, Printed(run, "Model Summary"))
            /\ merged' = merged \cup {<<run.tier, run.dur, n>> : n \in FigNames}
    /\ aIdx' = aIdx + 1
    /\ aqPc' = IF aIdx = Len(available) THEN "return" ELSE "loop"
    /\ UNCHANGED aqExc

RunAllAeglIter ==
    /\ aqPc = "loop"
    /\ LET tier == available[aIdx][1]
           dur  == available[aIdx][2]
       IN  \E oV \in OraclesOf(row, tier, dur) :
           \E oL \in IF run_single_from_row(row, tier, dur, oV, AnyOracle).stage
                          = "makePlotlyFigures"
                     THEN OraclesOf(row, tier, dur) ELSE {AnyOracle} :
              RunAllAeglTarget(run_single_from_row(row, tier, dur, oV, oL))
    /\ UNCHANGED <<row, available>>
    /\ UNCHANGED <<gasVars, reactVars, solveVars, pureVars, appVars, cacheVars>>

\* return merged (aqueous_code.py:341; outdir is None)
RunAllAeglReturn ==
    /\ aqPc = "return"
    /\ aqPc' = "returned"
    /\ UNCHANGED <<row, available, aIdx, merged, printed, lastRun, aqExc>>
    /\ UNCHANGED <<gasVars, reactVars, solveVars, pureVars, appVars, cacheVars>>

NextAq == RunAllAeglBegin \/ RunAllAeglIter \/ RunAllAeglReturn

-----------------------------------------------------------------------------
(* aqueous_code.py: findTimeToDose statement by statement                    *)
(*                                                                           *)
(* f is described by what the comparisons of lines 150 and 155 see:          *)
(*   cross    the number of expansions after which fLo * fHi > 0.0 is first  *)
(*            False, NoCross when it stays True for MaxTries expansions;     *)
(*   product  why it is False there: "signChange" (fLo and fHi of opposite   *)
(*            sign), "zeroAtEnd" (f is 0.0 at lo or at hi), "underflow"      *)
(*            (both values have the same sign and their product is too       *)
(*            small for a float, so it is 0.0) or "nan" (neither > 0.0 nor   *)
(*            <= 0.0 holds);                                                 *)
(* and the solvers by their outcome:                                         *)
(*   brentq   "root" (converged), "notConverged", or "ValueError" (a SciPy   *)
(*            release that tests the signs of f(lo) and f(hi) refuses a      *)
(*            bracket without a sign change; one that tests their product    *)
(*            iterates);                                                     *)
(*   newton   "root" (converged, root >= 0), "negative" (converged, root     *)
(*            < 0), "notConverged", or "ValueError" (a SciPy release whose   *)
(*            root_scalar wants fprime for newton).                          *)

\* the values of x0: below 1.0, and the two of _run_single_from_row
SolveX0Values == {0, 20, 200}

SolveArgs ==
    {a \in [x0 : SolveX0Values, isVapor : BOOLEAN,
            cross : (0..MaxTries) \cup {NoCross},
            product : {"signChange", "zeroAtEnd", "underflow", "nan", "positive"},
            brentq : {"root", "notConverged", "ValueError", "notRun"},
            newton : {"root", "negative", "notConverged", "ValueError", "notRun"}] :
        /\ a.product = "positive" <=> a.cross = NoCross
        \* brentq runs exactly when line 155 holds
        /\ a.brentq = "notRun" <=> a.product \in {"nan", "positive"}
        \* brentq returns the end where f is 0.0 at once
        /\ a.product = "zeroAtEnd" => a.brentq = "root"
        \* SciPy finds the bracket wrong only when there is no sign change
        /\ a.brentq = "ValueError" => a.product = "underflow"
        \* newton runs unless brentq returned a root or raised
        /\ a.newton = "notRun" <=> a.brentq \in {"root", "ValueError"}
        \* f is NaN at an end: newton has nothing to converge on
        /\ a.product = "nan" => a.newton \in {"notConverged", "ValueError"}}

\* fLo * fHi > 0.0 after n expansions
ProductPositive(a, n) == a.cross = NoCross \/ n < a.cross

\* fLo * fHi <= 0.0 after n expansions
ProductNonPositive(a, n) ==
    a.cross # NoCross /\ n >= a.cross /\ a.product \in {"signChange", "zeroAtEnd", "underflow"}

\* the high bound: base * 1.5^expansions
HiOf(base, expansions) == [base |-> base, expansions |-> expansions]

\* a root_scalar call: its method, the keywords it was given besides f and
\* method, and the upper end of the bracket (lo is 0.0) or the seed, both as
\* base * 1.5^expansions
SolverCall(method, kwargs, at) == [method |-> method, kwargs |-> kwargs, at |-> at]

NoOutcome == [kind |-> "none", solver |-> "", exc |-> NoExc]

\* lines 140-149: f, lo = 0.0, hi = max(1.0, x0), fLo, fHi, tries = 0
FindStart ==
    /\ sPc = "start"
    /\ sPc' = "loop"
    /\ sHi' = HiOf(IF sArgs.x0 > 1 THEN sArgs.x0 ELSE 1, 0)
    /\ sTries' = 0
    /\ UNCHANGED <<sArgs, solverCalls, sOut>>
    /\ UNCHANGED <<gasVars, aqVars, reactVars, pureVars, appVars, cacheVars>>

\* lines 150-153: one pass of the while loop, or its exit
FindExpand ==
    /\ sPc = "loop"
    /\ IF ProductPositive(sArgs, sTries) /\ sTries < MaxTries
       THEN /\ sHi' = HiOf(sHi.base, sHi.expansions + 1)
            /\ sTries' = sTries + 1
            /\ UNCHANGED sPc
       ELSE /\ sPc' = "bracketed"
            /\ UNCHANGED <<sHi, sTries>>
    /\ UNCHANGED <<sArgs, solverCalls, sOut>>
    /\ UNCHANGED <<gasVars, aqVars, reactVars, pureVars, appVars, cacheVars>>

\* lines 155-158: root_scalar(f, bracket=(lo, hi), method="brentq") when
\* fLo * fHi <= 0.0; its root is returned when it converged
FindBracketed ==
    /\ sPc = "bracketed"
    /\ IF ProductNonPositive(sArgs, sTries)
       THEN /\ solverCalls' = Append(solverCalls,
                                 SolverCall("brentq", {"bracket"}, sHi))
            /\ CASE sArgs.brentq = "root" ->
                      /\ sPc' = "returned"
                      /\ sOut' = [kind |-> "root", solver |-> "brentq", exc |-> NoExc]
                 [] sArgs.brentq = "ValueError" ->
                      /\ sPc' = "raised"
                      /\ sOut' = [kind |-> "raise", solver |-> "brentq",
                                  exc |-> "ValueError"]
                 [] OTHER ->
                      /\ sPc' = "open"
                      /\ UNCHANGED sOut
       ELSE /\ sPc' = "open"
            /\ UNCHANGED <<solverCalls, sOut>>
    /\ UNCHANGED <<sArgs, sHi, sTries>>
    /\ UNCHANGED <<gasVars, aqVars, reactVars, pureVars, appVars, cacheVars>>

\* lines 160-163: root_scalar(f, x0=x0, method="newton"); its root is returned
\* when it converged and is >= 0.0, RuntimeError is raised otherwise
FindOpen ==
    /\ sPc = "open"
    /\ solverCalls' = Append(solverCalls, SolverCall("newton", {"x0"}, HiOf(sArgs.x0, 0)))
    /\ CASE sArgs.newton = "root" ->
              /\ sPc' = "returned"
              /\ sOut' = [kind |-> "root", solver |-> "newton", exc |-> NoExc]
         [] sArgs.newton = "ValueError" ->
              /\ sPc' = "raised"
              /\ sOut' = [kind |-> "raise", solver |-> "newton", exc |-> "ValueError"]
         [] OTHER ->
              /\ sPc' = "raised"
              /\ sOut' = [kind |-> "raise", solver |-> "", exc |-> "RuntimeError"]
    /\ UNCHANGED <<sArgs, sHi, sTries>>
    /\ UNCHANGED <<gasVars, aqVars, reactVars, pureVars, appVars, cacheVars>>

NextSolve == FindStart \/ FindExpand \/ FindBracketed \/ FindOpen

-----------------------------------------------------------------------------
(* analysis_core.py: the reactivity profile and the rate-constant estimate *)

\* the SMARTS labels of analyze_reactivity, in the order of the patterns dict
PatternLabels == <<"Alkene", "Carbonyl", "Nitro", "Thiol", "Amine", "Phenol",
                   "Phosphate ester", "Organophosphorus">>

\* A SMILES value: a missing key, None, NaN (an empty CSV cell), or a string.
\* A string is described by what RDKit makes of it: empty, not parsable, or a
\* molecule with the set of pattern labels and leaving-group SMARTS it matches.
NoSmilesKey   == [k |-> "absent", groups |-> {}, atoms |-> {}]
NoneSmiles    == [k |-> "none", groups |-> {}, atoms |-> {}]
NaNSmiles     == [k |-> "nan", groups |-> {}, atoms |-> {}]
EmptySmiles   == [k |-> "empty", groups |-> {}, atoms |-> {}]
InvalidSmiles == [k |-> "invalid", groups |-> {}, atoms |-> {}]
Molecule(groups, atoms) == [k |-> "mol", groups |-> groups, atoms |-> atoms]

\* compound.get("SMILES")
GetSmiles(s) == IF s.k = "absent" THEN NoneSmiles ELSE s

\* "if smiles": None and the empty string are falsy, NaN is truthy
SmilesTruthy(s) == s.k \in {"nan", "invalid", "mol"}

\* safe_mol_from_smiles: None when MolFromSmiles returns None or raises (as it
\* does on a float)
safe_mol_from_smiles(s) == IF s.k = "mol" THEN s ELSE NoneSmiles

\* class_reactivity_factors.get(cls, 0.001)
class_reactivity_factors(cls) ==
    CASE cls = "Nerve agent"          -> <<1, 1>>
      [] cls = "Blister agent"        -> <<4, 10>>
      [] cls = "Nitroaromatic"        -> <<5, 100>>
      [] cls = "Aromatic hydrocarbon" -> <<1, 1000>>
      [] cls = "Alcohol"              -> <<1, 1000>>
      [] cls = "Ketone"               -> <<2, 1000>>
      [] cls = "Other"                -> <<1, 1000>>
      [] OTHER                        -> <<1, 1000>>

\* the labels of groups, in pattern order
RECURSIVE LabelsIn(_, _)
LabelsIn(groups, i) ==
    IF i > Len(PatternLabels) THEN <<>>
    ELSE (IF PatternLabels[i] \in groups THEN <<PatternLabels[i]>> ELSE <<>>)
         \o LabelsIn(groups, i + 1)

NoReactivity == [reactiveGroups |-> <<>>, leavingGroup |-> "", steric |-> "",
                 reactiveScore |-> <<0, 1>>, chemicalClass |-> "",
                 oximeReactivity |-> ""]

\* float(compound.get(key, default)): the exception, or the float; float of
\* None is a TypeError, float of a string that is no number a ValueError
FloatOfGet(x, default) ==
    IF x.k = "absent" THEN [exc |-> NoExc, f |-> <<default, 1>>]
    ELSE IF x.k = "none" THEN [exc |-> "TypeError", f |-> NaNQ]
    ELSE IF x.k \in {"empty", "undefined"} THEN [exc |-> "ValueError", f |-> NaNQ]
    ELSE [exc |-> NoExc, f |-> ToFloat(x)]

\* a <= b on floats; False when either is NaN
RatLeq(a, b) == ~IsNaNQ(a) /\ ~IsNaNQ(b) /\ a[1] * b[2] <= b[1] * a[2]

\* a < b on floats; False when either is NaN
RatLess(a, b) == ~IsNaNQ(a) /\ ~IsNaNQ(b) /\ a[1] * b[2] < b[1] * a[2]

\* the oxime cascade with the Carbonyl/Nitro test first
OximeReactivityOf_CarbonylFirst(groups) ==
    IF "Carbonyl" \in groups \/ "Nitro" \in groups THEN "Moderate"
    ELSE IF "Organophosphorus" \in groups THEN "High"
    ELSE "Negligible"

\* analysis_core.py:54-57, on the labels appended to reactive_groups
OximeReactivityOf(groups) ==
    IF "Organophosphorus" \in groups THEN "High"
    ELSE IF "Carbonyl" \in groups \/ "Nitro" \in groups THEN "Moderate"
    ELSE "Negligible"

\* the leaving-group cascade with the chlorine test before the fluorine test
LeavingGroupOf_ChlorineFirst(mol) ==
    IF mol.k # "mol" THEN "Other"
    ELSE IF "Cl" \in mol.atoms THEN "Cl"
    ELSE IF "[F-]" \in mol.atoms \/ "F" \in mol.atoms THEN "F"
    ELSE IF "Br" \in mol.atoms THEN "Br"
    ELSE IF "C#N" \in mol.atoms THEN "CN"
    ELSE IF "S" \in mol.atoms THEN "S"
    ELSE "Other"

\* analysis_core.py:59-72; mol.atoms holds the SMARTS among [F-], F, Cl, Br,
\* C#N and [S] (written S) that the molecule matches
LeavingGroupOf(mol) ==
    IF mol.k # "mol" THEN "Other"
    ELSE IF "[F-]" \in mol.atoms \/ "F" \in mol.atoms THEN "F"
    ELSE IF "Cl" \in mol.atoms THEN "Cl"
    ELSE IF "Br" \in mol.atoms THEN "Br"
    ELSE IF "C#N" \in mol.atoms THEN "CN"
    ELSE IF "S" \in mol.atoms THEN "S"
    ELSE "Other"

\* the steric bucket with "<" for "<="
StericOf_Strict(MW) ==
    IF RatLess(MW, <<150, 1>>) THEN "Low"
    ELSE IF RatLess(MW, <<300, 1>>) THEN "Medium"
    ELSE "High"

\* analysis_core.py:74
StericOf(MW) ==
    IF RatLeq(MW, <<150, 1>>) THEN "Low"
    ELSE IF RatLeq(MW, <<300, 1>>) THEN "Medium"
    ELSE "High"

\* analyze_reactivity(compound): the exception it raises, or the profile.
\* c.class is the class string, "<absent>" for a missing key, "<None>" for None.
analyze_reactivity(c) ==
    LET smiles == GetSmiles(c.SMILES)
        mol == IF SmilesTruthy(smiles) THEN safe_mol_from_smiles(smiles) ELSE NoneSmiles
        cls == IF c.class = "<absent>" THEN "Other" ELSE c.class
        MW  == FloatOfGet(c.MW, 0)
    IN  IF MW.exc # NoExc THEN [exc |-> MW.exc, r |-> NoReactivity]
        ELSE [exc |-> NoExc,
              r |-> [reactiveGroups |-> LabelsIn(mol.groups, 1),
                     leavingGroup |-> LeavingGroupOf(mol),
                     steric |-> StericOf(MW.f),
                     reactiveScore |-> class_reactivity_factors(cls),
                     chemicalClass |-> cls,
                     oximeReactivity |-> OximeReactivityOf(mol.groups)]]

RatAbs(q) == IF IsNaNQ(q) THEN NaNQ ELSE <<Abs(q[1]), q[2]>>

-----------------------------------------------------------------------------
(* Fixed-point arithmetic of predict_kr: penalties in thousandths, rate        *)
(* constants in units of 1e-7                                                  *)

\* a fraction >= 0 in ten-thousandths, rounded down
Fixed4(q) ==
    LET g == GCD(10000, q[2])
    IN  (q[1] * (10000 \div g)) \div (q[2] \div g)

\* 10000 * (1 + x + x^2/2! + ...), xs = 10000 * x, by 16 terms after the first
RECURSIVE ExpSeries(_, _, _, _)
ExpSeries(xs, k, term, sum) ==
    IF k > 16 THEN sum
    ELSE LET next == (term * xs) \div (10000 * k)
         IN  ExpSeries(xs, k + 1, next, sum + next)

\* 1000 * math.exp(-x) for xs = 10000 * x >= 0, rounded down; the argument is
\* halved until the series fits the integers
RECURSIVE ExpNegMilli(_)
ExpNegMilli(xs) ==
    IF xs > 20000
    THEN (ExpNegMilli(xs \div 2) * ExpNegMilli(xs - (xs \div 2))) \div 1000
    ELSE 10000000 \div ExpSeries(xs, 1, 10000, 10000)

\* a fraction >= 0 in units of 1e-7, rounded down
Units7(q) == (q[1] * 10000000) \div q[2]

Min2(a, b) == IF b < a THEN b ELSE a
Max2(a, b) == IF b > a THEN b ELSE a

\* a rate constant of v * 1e-7
Kr(v) == [k |-> "e-7", v |-> v]

\* the base table without the entry for S
BaseKrOf_NoSulfur(leavingGroup, reactiveScore) ==
    CASE leavingGroup = "Cl" -> Frac(1, 10)
      [] leavingGroup = "Br" -> Frac(2, 10)
      [] leavingGroup = "F"  -> Frac(5, 100)
      [] leavingGroup = "CN" -> Frac(1, 100)
      [] OTHER -> RatMul(Frac(1, 1000), reactiveScore)

\* analysis_core.py:90-96
BaseKrOf(leavingGroup, reactiveScore) ==
    CASE leavingGroup = "Cl" -> Frac(1, 10)
      [] leavingGroup = "Br" -> Frac(2, 10)
      [] leavingGroup = "F"  -> Frac(5, 100)
      [] leavingGroup = "CN" -> Frac(1, 100)
      [] leavingGroup = "S"  -> Frac(5, 1000)
      [] OTHER -> RatMul(Frac(1, 1000), reactiveScore)

\* the steric factors with those of Medium and High exchanged
StericAdjOf_Exchanged(steric) ==
    CASE steric = "Low" -> Frac(1, 1)
      [] steric = "Medium" -> Frac(4, 10)
      [] steric = "High" -> Frac(7, 10)
      [] OTHER -> Frac(1, 1)

\* analysis_core.py:100-101
StericAdjOf(steric) ==
    CASE steric = "Low" -> Frac(1, 1)
      [] steric = "Medium" -> Frac(7, 10)
      [] steric = "High" -> Frac(4, 10)
      [] OTHER -> Frac(1, 1)

\* float(compound.get("logP") or 0.3): None, a missing key and 0 are falsy
LogPOf(x) ==
    IF x.k \in {"absent", "none"} \/ x = Num(0) \/ x = Dec4(0)
    THEN Frac(3, 10) ELSE ToFloat(x)

\* lines 105-110 without the class cap of lines 105-106
ClampKr_NoClassCap(finalKr, cls) ==
    Max2(Min2(finalKr, 100000000), 100)

\* analysis_core.py:105-110 on a finite finalKr in units of 1e-7: the cap 0.005
\* for a class that is neither agent, then max(min(finalKr, 10.0), 0.00001)
ClampKr(finalKr, cls) ==
    LET capped == IF cls \notin {"Nerve agent", "Blister agent"}
                  THEN Min2(finalKr, 50000) ELSE finalKr
    IN  Max2(Min2(capped, 100000000), 100)

\* the label of line 111 with "Blister agent" rated High as well
ConfidenceOf_AnyAgent(cls) ==
    IF cls \in {"Nerve agent", "Blister agent"} THEN "High" ELSE "Low"

\* analysis_core.py:111
ConfidenceOf(cls) == IF cls = "Nerve agent" THEN "High" ELSE "Low"

\* math.exp of NaN, among the penalties in thousandths
NaNPenalty == 0 - 1

NoFactors == [baseKr |-> <<0, 1>>, logP |-> NaNQ, logP_penalty |-> 0,
              mw_penalty |-> 0, steric_adj |-> <<0, 1>>, finalKr |-> 0]

NoPrediction == [compound |-> "", predicted_kr |-> None, confidence |-> "",
                 factors |-> NoFactors]

\* predict_kr(compound): the exception it raises, or the prediction.
\* predicted_kr is Kr(v), or NaN when MW or logP is NaN (min and max return
\* their first argument when it is NaN).  factors is not part of the returned
\* dict: it keeps the locals of the call (penalties in thousandths, finalKr of
\* line 103 in units of 1e-7).
predict_kr(c) ==
    LET made == analyze_reactivity(c)
        MW == FloatOfGet(c.MW, 100)
        logP == LogPOf(c.logP)
        baseKr == BaseKrOf(made.r.leavingGroup, made.r.reactiveScore)
        isNaN == IsNaNQ(MW.f) \/ IsNaNQ(logP)
        logP_penalty == IF IsNaNQ(logP) THEN NaNPenalty
                        ELSE ExpNegMilli(Fixed4(RatAbs(RatAdd(logP, Frac(-3, 10)))))
        mw_penalty == IF IsNaNQ(MW.f) THEN NaNPenalty
                      ELSE ExpNegMilli(Fixed4(RatMul(Frac(2, 1000),
                                              RatAbs(RatAdd(MW.f, <<-140, 1>>)))))
        steric_adj == StericAdjOf(made.r.steric)
        afterLogP == (Units7(baseKr) * logP_penalty) \div 1000
        afterMw == (afterLogP * mw_penalty) \div 1000
        finalKr == IF isNaN THEN 0 ELSE (afterMw * steric_adj[1]) \div steric_adj[2]
    IN  IF made.exc # NoExc THEN [exc |-> made.exc, r |-> NoPrediction]
        ELSE IF MW.exc # NoExc THEN [exc |-> MW.exc, r |-> NoPrediction]
        ELSE [exc |-> NoExc,
              r |-> [compound |-> IF HasKey(c.Name) THEN "Name" ELSE "Unknown",
                     predicted_kr |-> IF isNaN THEN NaN
                                      ELSE Kr(ClampKr(finalKr, c.class)),
                     confidence |-> ConfidenceOf(c.class),
                     factors |-> [baseKr |-> baseKr, logP |-> logP,
                                  logP_penalty |-> logP_penalty,
                                  mw_penalty |-> mw_penalty,
                                  steric_adj |-> steric_adj,
                                  finalKr |-> finalKr]]]

\* reactivity = analyze_reactivity(compound)  (app.py:29, main.py:10)
AnalyzeReactivity ==
    /\ rPc = "start"
    /\ LET made == analyze_reactivity(rCompound)
       IN  IF made.exc # NoExc
           THEN rPc' = "raised" /\ rExc' = made.exc /\ UNCHANGED reactivity
           ELSE rPc' = "analyzed" /\ reactivity' = made.r /\ UNCHANGED rExc
    /\ UNCHANGED <<rCompound, krPrediction>>
    /\ UNCHANGED <<gasVars, aqVars, solveVars, pureVars, appVars, cacheVars>>

\* krPrediction = predict_kr(compound)  (app.py:30, main.py:11)
PredictKr ==
    /\ rPc = "analyzed"
    /\ LET made == predict_kr(rCompound)
       IN  IF made.exc # NoExc
           THEN rPc' = "raised" /\ rExc' = made.exc /\ UNCHANGED krPrediction
           ELSE rPc' = "predicted" /\ krPrediction' = made.r /\ UNCHANGED rExc
    /\ UNCHANGED <<rCompound, reactivity>>
    /\ UNCHANGED <<gasVars, aqVars, solveVars, pureVars, appVars, cacheVars>>

NextReact == AnalyzeReactivity \/ PredictKr

-----------------------------------------------------------------------------
(* The steady-state flux steps and the exposure-hour lookups                 *)

\* a1 * k * hsc * cv * (dsc / (hsc * hsc))  (aqueous_code.py:119, 136;
\* analysis_core.py:264 forms the same product as a1*kscg*hsc*cv*dsc/(hsc**2))
FluxBase(a1, k, hsc, cv, dsc) ==
    IF IsNaNQ(hsc) \/ hsc[1] = 0 THEN NaNQ
    ELSE RatMul(RatMul(RatMul(RatMul(a1, k), hsc), cv),
                RatMul(dsc, <<hsc[2] * hsc[2], hsc[1] * hsc[1]>>))

\* the step with the flux already flowing at t = tLag
FluxStep_AtLag(base, tt, tLag) == IF RatLeq(tLag, tt) THEN base ELSE <<0, 1>>

\* "base if tt > tLag else 0.0"  (aqueous_code.py:120, 137; analysis_core.py:264)
FluxStep(base, tt, tLag) == IF RatLess(tLag, tt) THEN base ELSE <<0, 1>>

\* fluxVaporSteady(tt, tLag, dsc, hsc, cv, a1, kscg)
fluxVaporSteady(tt, tLag, dsc, hsc, cv, a1, kscg) ==
    FluxStep(FluxBase(a1, kscg, hsc, cv, dsc), tt, tLag)

\* fluxLiquidSteady(tt, tLag, dsc, hsc, cv, a1, kscw)
fluxLiquidSteady(tt, tLag, dsc, hsc, cv, a1, kscw) ==
    FluxStep(FluxBase(a1, kscw, hsc, cv, dsc), tt, tLag)

\* fluxSteadyState(t) of analyzeSingleAegl, tlag and the parameters being the
\* locals of the enclosing call
fluxSteadyState(t, tlag, dsc, hsc, cv, a1, kscg) ==
    FluxStep(FluxBase(a1, kscg, hsc, cv, dsc), t, tlag)

\* the dict durMap of _run_single_from_row
HoursTable(label) ==
    CASE label = "8hr"   -> <<8, 1>>
      [] label = "4hr"   -> <<4, 1>>
      [] label = "60min" -> <<1, 1>>
      [] label = "30min" -> <<1, 2>>
      [] label = "10min" -> <<1, 6>>

\* lines 288-292 of _run_single_from_row: the exception, or tTox
durMap(duration) ==
    IF duration \notin DurationLabels
    THEN [exc |-> "ValueError", hours |-> NaNQ]
    ELSE [exc |-> NoExc, hours |-> HoursTable(duration)]

NoFnArgs == [fn |-> "", tt |-> NaNQ, tLag |-> NaNQ, dsc |-> NaNQ, cv |-> NaNQ,
             k |-> NaNQ, label |-> ""]

NoFnOut == [exc |-> NoExc, value |-> NaNQ, solved |-> FALSE]

\* hsc = 10 * 0.0001 and a1 = 0.1 * 18150  (analysis_core.py:206-211,
\* aqueous_code.py:83-86)
SkinThicknessHsc == <<1, 1000>>
ExposedAreaA1 == <<1815, 1>>

\* one evaluation of a steady-state flux function
FluxSteady ==
    /\ fnPc = "start"
    /\ fnArgs.fn \in {"fluxVaporSteady", "fluxLiquidSteady", "fluxSteadyState"}
    /\ fnPc' = "done"
    /\ LET a == fnArgs
           value == CASE a.fn = "fluxVaporSteady" ->
                           fluxVaporSteady(a.tt, a.tLag, a.dsc, SkinThicknessHsc,
                                           a.cv, ExposedAreaA1, a.k)
                      [] a.fn = "fluxLiquidSteady" ->
                           fluxLiquidSteady(a.tt, a.tLag, a.dsc, SkinThicknessHsc,
                                            a.cv, ExposedAreaA1, a.k)
                      [] a.fn = "fluxSteadyState" ->
                           fluxSteadyState(a.tt, a.tLag, a.dsc, SkinThicknessHsc,
                                           a.cv, ExposedAreaA1, a.k)
       IN  fnOut' = [exc |-> NoExc, value |-> value, solved |-> FALSE]
    /\ UNCHANGED fnArgs
    /\ UNCHANGED <<gasVars, aqVars, reactVars, solveVars, appVars, cacheVars>>

\* analyzeSingleAegl for a pair with a usable limit: ttox =
\* timeStringToHours(timeStr) (analysis_core.py:212), which qallow and the root
\* search of line 269 then use
ExposureHoursGas ==
    /\ fnPc = "start"
    /\ fnArgs.fn = "timeStringToHours"
    /\ fnPc' = "done"
    /\ fnOut' = [exc |-> NoExc, value |-> timeStringToHours(fnArgs.label),
                 solved |-> TRUE]
    /\ UNCHANGED fnArgs
    /\ UNCHANGED <<gasVars, aqVars, reactVars, solveVars, appVars, cacheVars>>

\* _run_single_from_row for a target with a limit: lines 288-293, the
\* ValueError of line 291 leaving before the findTimeToDose calls
ExposureHoursAq ==
    /\ fnPc = "start"
    /\ fnArgs.fn = "durMap"
    /\ fnPc' = "done"
    /\ LET made == durMap(fnArgs.label)
       IN  fnOut' = [exc |-> made.exc, value |-> made.hours,
                     solved |-> made.exc = NoExc]
    /\ UNCHANGED fnArgs
    /\ UNCHANGED <<gasVars, aqVars, reactVars, solveVars, appVars, cacheVars>>

NextPure == FluxSteady \/ ExposureHoursGas \/ ExposureHoursAq

-----------------------------------------------------------------------------
(* app.py / main.py: getCompoundAnalysis                                     *)

\* the empty string and the string "undefined" as cell values
EmptyString == [k |-> "empty", v |-> 0]
Undefined   == [k |-> "undefined", v |-> 0]

\* the parameters hasAeglSupport requires, in the order of its list
RequiredParams == <<"MW", "logKow", "henryConstant", "vaporPressure", "solubility">>

\* the AEGL cells of a row that build_compound keeps: pd.notnull(v)
KeptAegl(cells) == SelectSeq(cells, LAMBDA c : c.val.k # "nan")

\* a cell of a database row as build_compound keeps it: a null cell is dropped
KeptCell(x) == IF x.k = "nan" THEN Absent ELSE x

NoCompound == [found |-> FALSE, aegl |-> <<>>, MW |-> Absent, logKow |-> Absent,
               logP |-> Absent, henryConstant |-> Absent, vaporPressure |-> Absent,
               solubility |-> Absent, SMILES |-> NoSmilesKey, class |-> "<absent>",
               Name |-> Absent, CAS |-> Absent]

\* build_compound(name, compound_db, makeJsonSafe) on what is held for the name:
\*   a database row: the non-null cells, logKow taken from logP when it is
\*     missing (lines 115-120);
\*   no row and nothing at PubChem: None (line 123);
\*   a PubChem compound: the dict of lines 139-151, without AEGL keys, logKow and
\*     logP both xlogp, the three physical parameters None.
build_compound(r) ==
    CASE r.source = "db" ->
           LET logP == KeptCell(r.logP)
               logKow == KeptCell(r.logKow)
           IN  [found |-> TRUE, aegl |-> KeptAegl(r.aegl),
                MW |-> KeptCell(r.MW),
                logKow |-> IF ~HasKey(logKow) /\ HasKey(logP) THEN logP ELSE logKow,
                logP |-> logP,
                henryConstant |-> KeptCell(r.henryConstant),
                vaporPressure |-> KeptCell(r.vaporPressure),
                solubility |-> KeptCell(r.solubility),
                SMILES |-> r.SMILES, class |-> r.class, Name |-> Str,
                CAS |-> KeptCell(r.CAS)]
      [] r.source = "pubchem" ->
           [found |-> TRUE, aegl |-> <<>>, MW |-> r.MW, logKow |-> r.logP,
            logP |-> r.logP, henryConstant |-> None, vaporPressure |-> None,
            solubility |-> None, SMILES |-> r.SMILES, class |-> r.class,
            Name |-> Str, CAS |-> r.CAS]
      [] OTHER -> NoCompound

\* compound.get(k) in [None, "", "undefined"]
IsMissingParam(x) == Get(x).k \in {"none", "empty", "undefined"}

\* the names of RequiredParams from position i on whose value is missing
RECURSIVE MissingFrom(_, _)
MissingFrom(c, i) ==
    IF i > Len(RequiredParams) THEN <<>>
    ELSE LET name == RequiredParams[i]
             x == CASE name = "MW" -> c.MW
                    [] name = "logKow" -> c.logKow
                    [] name = "henryConstant" -> c.henryConstant
                    [] name = "vaporPressure" -> c.vaporPressure
                    [] name = "solubility" -> c.solubility
         IN  (IF IsMissingParam(x) THEN <<name>> ELSE <<>>) \o MissingFrom(c, i + 1)

\* hasAeglSupport(compound): (False, reason) or (True, ""); c.aegl holds the
\* keys that start with "AEGL"
hasAeglSupport(c) ==
    LET has_any == c.aegl # <<>>
        missing == MissingFrom(c, 1)
    IN  IF ~has_any
        THEN [ok |-> FALSE, reason |-> "No AEGL values found.", missing |-> <<>>]
        ELSE IF missing # <<>>
        THEN [ok |-> FALSE, reason |-> "Missing parameters", missing |-> missing]
        ELSE [ok |-> TRUE, reason |-> "", missing |-> <<>>]

\* analyzeAllAegls(compound, times) raises: some pair it analyses has a usable
\* limit and analyzeSingleAegl raises on the record (nothing around the call at
\* analysis_core.py:427 catches it)
analyzeAllAeglsRaises(c) ==
    /\ \E lvl \in AeglLevels :
          \E t \in Range(AppTimes.list) \cap Range(getAvailableAeglTimes(c)) :
              getAeglValue(c, lvl, t) # NotAvailable
    /\ \/ PreSolveFault(c) # NoExc
       \/ PostSolveFault(c, FindRootFailed) # NoExc

NoAeglAnalysis == [available |-> FALSE, reason |-> "", missing |-> <<>>]

\* kind: "none" while the call runs, "error" for the not-found dict, "result"
\* for the four-key dict, "raise" for an exception that left the call;
\* solverInvoked: analyzeAllAegls was called
NoAppOut == [kind |-> "none", exc |-> NoExc, reactivity |-> NoReactivity,
             krPrediction |-> NoPrediction, aeglAnalysis |-> NoAeglAnalysis,
             solverInvoked |-> FALSE]

\* lines 25-27: compound = build_compound(...); the error dict when it is None
AppBuildCompound ==
    /\ appPc = "start"
    /\ LET c == build_compound(appRow)
       IN  /\ appCompound' = c
           /\ IF c.found
              THEN appPc' = "built" /\ UNCHANGED appOut
              ELSE appPc' = "returned" /\ appOut' = [NoAppOut EXCEPT !.kind = "error"]
    /\ UNCHANGED appRow
    /\ UNCHANGED <<gasVars, aqVars, reactVars, solveVars, pureVars, cacheVars>>

\* lines 29-30: reactivity = analyze_reactivity(compound);
\* krPrediction = predict_kr(compound)
AppReactivity ==
    /\ appPc = "built"
    /\ LET c == [SMILES |-> appCompound.SMILES, class |-> appCompound.class,
                 MW |-> appCompound.MW, logP |-> appCompound.logP,
                 Name |-> appCompound.Name]
           profile == analyze_reactivity(c)
           prediction == predict_kr(c)
       IN  IF profile.exc # NoExc
           THEN /\ appPc' = "raised"
                /\ appOut' = [appOut EXCEPT !.kind = "raise", !.exc = profile.exc]
           ELSE IF prediction.exc # NoExc
           THEN /\ appPc' = "raised"
                /\ appOut' = [appOut EXCEPT !.kind = "raise", !.exc = prediction.exc]
           ELSE /\ appPc' = "profiled"
                /\ appOut' = [appOut EXCEPT !.reactivity = profile.r,
                                            !.krPrediction = prediction.r]
    /\ UNCHANGED <<appRow, appCompound>>
    /\ UNCHANGED <<gasVars, aqVars, reactVars, solveVars, pureVars, cacheVars>>

\* lines 31-45: hasAeglSupport, analyzeAllAegls when it says so, and the
\* returned dict.  An exception of analyzeAllAegls leaves getCompoundAnalysis
\* as it is.
AppAeglAnalysis ==
    /\ appPc = "profiled"
    /\ LET support == hasAeglSupport(appCompound)
       IN  IF support.ok
           THEN IF analyzeAllAeglsRaises(appCompound)
                THEN /\ appPc' = "raised"
                     /\ appOut' = [appOut EXCEPT !.kind = "raise", !.exc = "Exception",
                                                 !.solverInvoked = TRUE]
                ELSE /\ appPc' = "returned"
                     /\ appOut' = [appOut EXCEPT
                                      !.kind = "result", !.solverInvoked = TRUE,
                                      !.aeglAnalysis = [available |-> TRUE, reason |-> "",
                                                        missing |-> <<>>]]
           ELSE /\ appPc' = "returned"
                /\ appOut' = [appOut EXCEPT
                                 !.kind = "result",
                                 !.aeglAnalysis = [available |-> FALSE,
                                                   reason |-> support.reason,
                                                   missing |-> support.missing]]
    /\ UNCHANGED <<appRow, appCompound>>
    /\ UNCHANGED <<gasVars, aqVars, reactVars, solveVars, pureVars, cacheVars>>

NextApp == AppBuildCompound \/ AppReactivity \/ AppAeglAnalysis

-----------------------------------------------------------------------------
(* analysis_core.py: getGlobalScatterGraph and _global_scatter_cache         *)
(*                                                                           *)
(* The contents of Database/combined_chemicals.csv are a version number, its *)
(* modification time a tick count.  compound_db is the DataFrame that        *)
(* data_loader read when the module was imported; nothing assigns it again.  *)

\* None as the value of _global_scatter_cache["last_modified"]
NoMtime == 0 - 1

\* no contents: the data of an error chart and of None
NoData == 0 - 1

\* None as a chart
NoChart == [kind |-> "none", data |-> NoData]

\* pio.to_json(fig) for the scatter of the rows of contents version data
Chart(data) == [kind |-> "chart", data |-> data]

\* pio.to_json(px.scatter(title="Error generating scatter: ..."))
ErrorChart == [kind |-> "error", data |-> NoData]

\* the test of lines 590-592 without the comparison of modification times
CacheIsFresh_AnyTime(cache, last_modified) == cache.json # NoChart

\* lines 590-591: the cache holds a chart made at this modification time
CacheIsFresh(cache, last_modified) ==
    cache.json # NoChart /\ cache.last_modified = last_modified

\* getGlobalScatterGraph with the error chart stored in the cache
getGlobalScatterGraph_StoresError(file, db, cache) ==
    IF ~file.exists
    THEN [chart |-> ErrorChart, recomputed |-> FALSE,
          cache |-> [json |-> ErrorChart, last_modified |-> cache.last_modified]]
    ELSE IF CacheIsFresh(cache, file.mtime)
    THEN [chart |-> cache.json, recomputed |-> FALSE, cache |-> cache]
    ELSE IF db.defective
    THEN [chart |-> ErrorChart, recomputed |-> TRUE,
          cache |-> [json |-> ErrorChart, last_modified |-> cache.last_modified]]
    ELSE [chart |-> Chart(db.data), recomputed |-> TRUE,
          cache |-> [json |-> Chart(db.data), last_modified |-> file.mtime]]

\* getGlobalScatterGraph(): the chart returned, whether the rows were gone
\* through again, and the cache afterwards.
\*   os.path.getmtime raises OSError for a missing file (line 588);
\*   a fresh cache is returned as it is (lines 590-592);
\*   predict_kr on a row of compound_db, or the rendering, may raise (lines
\*     594-623): the except clause returns an error chart (lines 631-632);
\*   otherwise both cache fields are assigned and the chart returned (626-629).
getGlobalScatterGraph(file, db, cache) ==
    IF ~file.exists
    THEN [chart |-> ErrorChart, recomputed |-> FALSE, cache |-> cache]
    ELSE IF CacheIsFresh(cache, file.mtime)
    THEN [chart |-> cache.json, recomputed |-> FALSE, cache |-> cache]
    ELSE IF db.defective
    THEN [chart |-> ErrorChart, recomputed |-> TRUE, cache |-> cache]
    ELSE [chart |-> Chart(db.data), recomputed |-> TRUE,
          cache |-> [json |-> Chart(db.data), last_modified |-> file.mtime]]

\* lastChart: the chart of the latest call, whether the rows were gone through,
\* the cache as the call found it, the modification time the call read (NoMtime
\* when getmtime raised) and the contents the file had at the call
NoReturn == [chart |-> NoChart, recomputed |-> FALSE,
             before |-> [json |-> NoChart, last_modified |-> NoMtime],
             mtime |-> NoMtime, fileData |-> NoData]

\* one call of getGlobalScatterGraph
GetGlobalScatterGraph ==
    /\ LET made == getGlobalScatterGraph(csvFile, compound_db, global_scatter_cache)
       IN  /\ lastChart' = [chart |-> made.chart, recomputed |-> made.recomputed,
                            before |-> global_scatter_cache,
                            mtime |-> IF csvFile.exists THEN csvFile.mtime ELSE NoMtime,
                            fileData |-> IF csvFile.exists THEN csvFile.data ELSE NoData]
           /\ global_scatter_cache' = made.cache
    /\ UNCHANGED <<csvFile, compound_db>>
    /\ UNCHANGED <<gasVars, aqVars, reactVars, solveVars, pureVars, appVars>>

\* the data file is rewritten with new contents
ModifyFile ==
    /\ csvFile.exists
    /\ csvFile.mtime < MaxMtime
    /\ csvFile' = [csvFile EXCEPT !.mtime = @ + 1, !.data = @ + 1]
    /\ UNCHANGED <<compound_db, global_scatter_cache, lastChart>>
    /\ UNCHANGED <<gasVars, aqVars, reactVars, solveVars, pureVars, appVars>>

\* the data file is written again with the contents it has
TouchFile ==
    /\ csvFile.exists
    /\ csvFile.mtime < MaxMtime
    /\ csvFile' = [csvFile EXCEPT !.mtime = @ + 1]
    /\ UNCHANGED <<compound_db, global_scatter_cache, lastChart>>
    /\ UNCHANGED <<gasVars, aqVars, reactVars, solveVars, pureVars, appVars>>

\* the data file is removed, or put back
RemoveFile ==
    /\ csvFile.exists
    /\ csvFile' = [csvFile EXCEPT !.exists = FALSE]
    /\ UNCHANGED <<compound_db, global_scatter_cache, lastChart>>
    /\ UNCHANGED <<gasVars, aqVars, reactVars, solveVars, pureVars, appVars>>

RestoreFile ==
    /\ ~csvFile.exists
    /\ csvFile.mtime < MaxMtime
    /\ csvFile' = [csvFile EXCEPT !.exists = TRUE, !.mtime = @ + 1]
    /\ UNCHANGED <<compound_db, global_scatter_cache, lastChart>>
    /\ UNCHANGED <<gasVars, aqVars, reactVars, solveVars, pureVars, appVars>>

NextCache ==
    GetGlobalScatterGraph \/ ModifyFile \/ TouchFile \/ RemoveFile \/ RestoreFile

-----------------------------------------------------------------------------
(* The rows the aqueous runs are checked on *)

\* values of an AEGL cell of a data-file row: a positive limit, zero, a
\* negative number and NaN (an empty cell)
AqLimitValues == {Num(2), Num(0), Num(-1), NaN}

\* the AEGL columns the rows are built from
AqColumns == {<<1, "8hr">>, <<1, "10min">>, <<2, "10min">>, <<3, "8hr">>}

AqCells == {[tier |-> c[1], dur |-> c[2], val |-> v] : c \in AqColumns, v \in AqLimitValues}

\* the AEGL part of a row dict: at most MaxKeys of the columns, no column twice
AqDicts ==
    {d \in SeqUpTo(AqCells, MaxKeys) :
        \A i, j \in DOMAIN d :
            (d[i].tier = d[j].tier /\ d[i].dur = d[j].dur) => i = j}

\* columns whose name AEGL_COL_RE rejects: a fourth tier, a two-hour duration
AqOtherColumns == {<<4, "8hr">>, <<1, "2hr">>}

\* row dicts in every key order with a NaN cell or a rejected column among the
\* keys (the rows whose every cell is a valid limit are in AqDicts)
AqKeyOrderDicts ==
    {d \in SeqUpTo({[tier |-> c[1], dur |-> c[2], val |-> v] :
                        c \in AqColumns \cup AqOtherColumns, v \in {Num(2), NaN}},
                   MaxKeys) :
        /\ \A i, j \in DOMAIN d :
              (d[i].tier = d[j].tier /\ d[i].dur = d[j].dur) => i = j
        /\ \E i \in DOMAIN d :
              d[i].val = NaN \/ <<d[i].tier, d[i].dur>> \in AqOtherColumns}

AqRow(d, mw, logP, H) ==
    [aegl |-> d, MW |-> mw, logP |-> logP, henryConstant |-> H,
     Name |-> Str, CAS |-> Str]

\* henryConstant of a row: a positive number, zero, a negative number, NaN,
\* None, or no such key
HenryValues == {Num(3), Num(0), Num(-1), NaN, None, Absent}

\* MW and logP of a row with one of the two missing, null, NaN or (MW) zero
DefectiveMwLogP ==
    {<<x, Num(0)>> : x \in {Absent, None, NaN, Num(0)}}
    \cup {<<Num(140), y>> : y \in {Absent, None, NaN}}

-----------------------------------------------------------------------------
(* The records the reactivity calls are checked on *)

SmilesValues ==
    {NoSmilesKey, NoneSmiles, NaNSmiles, EmptySmiles, InvalidSmiles,
     Molecule({"Organophosphorus"}, {"F"}),
     Molecule({"Carbonyl"}, {}),
     Molecule({"Nitro", "Phenol"}, {}),
     Molecule({}, {"Cl", "S"}),
     Molecule({}, {})}

\* what a molecule can match: any set of the pattern labels, and any set of the
\* leaving-group SMARTS in which a match of [F-] is a match of F
GroupSets == SUBSET Range(PatternLabels)

AtomSets == {a \in SUBSET {"[F-]", "F", "Cl", "Br", "C#N", "S"} :
                "[F-]" \in a => "F" \in a}

ClassValues == {"<absent>", "<None>", "Nerve agent", "nerve agent",
                "Blister agent", "Ketone", "Other", "Solvent"}

ReactMwValues == {Absent, None, NaN, Num(140), Num(150), Dec4(1500001),
                  Num(200), Num(300), Dec4(3000001), Num(400)}

ReactLogPValues == {Absent, None, NaN, Num(0), Dec4(3000), Num(-1), Num(2)}

-----------------------------------------------------------------------------
(* Specifications *)

\* the variables of a program that is not running
IdleGas ==
    /\ compound = FullRecord(<<>>)
    /\ selectedTimes = NoTimes
    /\ pc = "idle"
    /\ timesToAnalyze = <<>>
    /\ level = 1
    /\ tIdx = 1
    /\ allResults = <<>>
    /\ exc = NoExc
    /\ lastCall = NoCall

IdleAq ==
    /\ row = AqRow(<<>>, Num(140), Num(0), Num(3))
    /\ aqPc = "idle"
    /\ available = <<>>
    /\ aIdx = 1
    /\ merged = {}
    /\ printed = <<>>
    /\ lastRun = NoRun
    /\ aqExc = NoExc

IdleReact ==
    /\ rCompound = [SMILES |-> NoSmilesKey, class |-> "<absent>", MW |-> Absent,
                    logP |-> Absent, Name |-> Absent]
    /\ rPc = "idle"
    /\ reactivity = NoReactivity
    /\ krPrediction = NoPrediction
    /\ rExc = NoExc

IdleSolve ==
    /\ sArgs = [x0 |-> 200, isVapor |-> TRUE, cross |-> 0, product |-> "signChange",
                brentq |-> "root", newton |-> "notRun"]
    /\ sPc = "idle"
    /\ sHi = HiOf(1, 0)
    /\ sTries = 0
    /\ solverCalls = <<>>
    /\ sOut = NoOutcome

\* times and lag times in hours: before, at and after each lag time, and NaN
FluxTimes == {NaNQ, <<0, 1>>, <<1, 2>>, <<1, 1>>, <<3, 2>>, <<2, 1>>}
FluxLagTimes == {NaNQ, <<1, 2>>, <<1, 1>>}

\* parameters of the steady-state flux: dsc, cv and the partition coefficient
FluxDscValues == {<<1, 100>>, <<1, 50>>}
FluxCvValues == {<<0, 1>>, <<1, 1000000>>, <<3, 1000000>>}
FluxKValues == {<<1, 1>>, <<2, 1>>}

\* duration labels handed to the lookups: the five of the tables, and labels
\* an AEGL key of a record can carry besides
LookupLabels == DurationLabels \cup {"2hr", "5min", "8h"}

IdlePure ==
    /\ fnArgs = NoFnArgs
    /\ fnPc = "idle"
    /\ fnOut = NoFnOut

\* the AEGL cells of a database row: two columns, each null or a limit
AppAeglCells ==
    {<<[tier |-> 1, dur |-> "8hr", val |-> a], [tier |-> 2, dur |-> "8hr", val |-> b]>> :
        a \in {NaN, Num(2)}, b \in {NaN, Num(2)}}

\* what the database or PubChem holds for a name
AppRows ==
    [source : {"db"}, aegl : AppAeglCells,
     MW : {NaN, Undefined, Num(140)}, logKow : {NaN, Num(1)}, logP : {NaN, Num(1)},
     henryConstant : {NaN, Num(0), Num(3)},
     vaporPressure : {NaN, EmptyString, Num(5)},
     solubility : {NaN, Num(1000)}, SMILES : {NoSmilesKey}, class : {"Other"},
     CAS : {NaN, Str}]
    \cup
    [source : {"pubchem", "none"}, aegl : {<<>>},
     MW : {None, Num(140)}, logKow : {None}, logP : {None, Num(1)},
     henryConstant : {None}, vaporPressure : {None}, solubility : {None},
     SMILES : {NoSmilesKey}, class : {"Other"}, CAS : {None, Str}]

IdleApp ==
    /\ appRow = [source |-> "none", aegl |-> <<>>, MW |-> None, logKow |-> None,
                 logP |-> None, henryConstant |-> None, vaporPressure |-> None,
                 solubility |-> None, SMILES |-> NoSmilesKey, class |-> "Other",
                 CAS |-> None]
    /\ appCompound = NoCompound
    /\ appPc = "idle"
    /\ appOut = NoAppOut

IdleCache ==
    /\ csvFile = [exists |-> TRUE, mtime |-> 0, data |-> 0]
    /\ compound_db = [data |-> 0, defective |-> FALSE]
    /\ global_scatter_cache = [json |-> NoChart, last_modified |-> NoMtime]
    /\ lastChart = NoReturn

\* Three families of calls: complete records with usable limits, keys in any
\* order and any argument list; rows of a data file (keys in column order) with
\* any cell values, called as analyzeAllCompounds does (selectedTimes=None; its
\* rows keep the NaN cells); rows with one defective parameter, called as either
\* call site does (None, or the five labels of getCompoundAnalysis)
InitGas ==
    /\ \E d \in AeglDicts :
          \/ /\ AllLimitsValid(d)
             /\ compound = FullRecord(d)
             /\ selectedTimes \in TimesArguments
          \/ /\ InColumnOrder(d)
             /\ compound = FullRecord(d)
             /\ selectedTimes = NoTimes
          \/ /\ InColumnOrder(d)
             /\ AllLimitsValid(d)
             /\ compound \in DefectiveRecords(d)
             /\ selectedTimes \in {NoTimes, AppTimes}
    /\ pc = "start"
    /\ timesToAnalyze = <<>>
    /\ level = 1
    /\ tIdx = 1
    /\ allResults = <<>>
    /\ exc = NoExc
    /\ lastCall = NoCall
    /\ IdleAq
    /\ IdleReact
    /\ IdleSolve
    /\ IdlePure
    /\ IdleApp
    /\ IdleCache

SpecGas == InitGas /\ [][NextGas]_vars

\* Rows after lookup by name or CAS: columns in file order with any cell values
\* and sound parameters; usable limits, the keys in any order, with any Henry's
\* constant; columns in file order with usable limits and one of MW, logP
\* defective
InitAq ==
    /\ \E d \in AqDicts \cup AqKeyOrderDicts :
          \/ /\ d \in AqKeyOrderDicts
             /\ row = AqRow(d, Num(140), Num(0), Num(3))
          \/ /\ InColumnOrder(d)
             /\ row = AqRow(d, Num(140), Num(0), Num(3))
          \/ /\ AllLimitsValid(d)
             /\ \E H \in HenryValues : row = AqRow(d, Num(140), Num(0), H)
          \/ /\ InColumnOrder(d)
             /\ AllLimitsValid(d)
             /\ \E m \in DefectiveMwLogP : row = AqRow(d, m[1], m[2], Num(3))
    /\ aqPc = "start"
    /\ available = <<>>
    /\ aIdx = 1
    /\ merged = {}
    /\ printed = <<>>
    /\ lastRun = NoRun
    /\ aqExc = NoExc
    /\ IdleGas
    /\ IdleReact
    /\ IdleSolve
    /\ IdlePure
    /\ IdleApp
    /\ IdleCache

SpecAq == InitAq /\ [][NextAq]_vars

\* Records of any class, MW and logP with a few structures; and records at
\* the reference MW and logP with any structure
InitReact ==
    /\ \/ rCompound \in [SMILES : SmilesValues, class : ClassValues,
                         MW : ReactMwValues, logP : ReactLogPValues,
                         Name : {Str, Absent}]
       \/ rCompound \in [SMILES : {Molecule(g, {}) : g \in GroupSets}
                                  \cup {Molecule({}, a) : a \in AtomSets}
                                  \cup {Molecule({"Carbonyl"}, a) : a \in AtomSets},
                         class : {"Nerve agent", "Other"},
                         MW : {Num(140)}, logP : {Dec4(3000)}, Name : {Str}]
    /\ rPc = "start"
    /\ reactivity = NoReactivity
    /\ krPrediction = NoPrediction
    /\ rExc = NoExc
    /\ IdleGas
    /\ IdleAq
    /\ IdleSolve
    /\ IdlePure
    /\ IdleApp
    /\ IdleCache

SpecReact == InitReact /\ [][NextReact]_vars

\* findTimeToDose on every x0, f and solver outcome of the model
InitSolve ==
    /\ sArgs \in SolveArgs
    /\ sPc = "start"
    /\ sHi = HiOf(1, 0)
    /\ sTries = 0
    /\ solverCalls = <<>>
    /\ sOut = NoOutcome
    /\ IdleGas
    /\ IdleAq
    /\ IdleReact
    /\ IdlePure
    /\ IdleApp
    /\ IdleCache

SpecSolve == InitSolve /\ [][NextSolve]_vars

\* every steady-state flux function on every time, lag time and parameter of
\* the model, and both lookups on every label
InitPure ==
    /\ \/ fnArgs \in [fn : {"fluxVaporSteady", "fluxLiquidSteady", "fluxSteadyState"},
                      tt : FluxTimes, tLag : FluxLagTimes, dsc : FluxDscValues,
                      cv : FluxCvValues, k : FluxKValues, label : {""}]
       \/ fnArgs \in [fn : {"timeStringToHours", "durMap"},
                      tt : {NaNQ}, tLag : {NaNQ}, dsc : {NaNQ}, cv : {NaNQ},
                      k : {NaNQ}, label : LookupLabels]
    /\ fnPc = "start"
    /\ fnOut = NoFnOut
    /\ IdleGas
    /\ IdleAq
    /\ IdleReact
    /\ IdleSolve
    /\ IdleApp
    /\ IdleCache

SpecPure == InitPure /\ [][NextPure]_vars

\* getCompoundAnalysis on every database row and PubChem answer of the model
InitApp ==
    /\ appRow \in AppRows
    /\ appCompound = NoCompound
    /\ appPc = "start"
    /\ appOut = NoAppOut
    /\ IdleGas
    /\ IdleAq
    /\ IdleReact
    /\ IdleSolve
    /\ IdlePure
    /\ IdleCache

SpecApp == InitApp /\ [][NextApp]_vars

\* the state after import: data_loader has read the file (contents 0, written
\* at tick 0), the cache is empty; defective says whether a row of the file
\* makes predict_kr or the rendering raise
InitCache ==
    /\ csvFile = [exists |-> TRUE, mtime |-> 0, data |-> 0]
    /\ compound_db \in [data : {0}, defective : BOOLEAN]
    /\ global_scatter_cache = [json |-> NoChart, last_modified |-> NoMtime]
    /\ lastChart = NoReturn
    /\ IdleGas
    /\ IdleAq
    /\ IdleReact
    /\ IdleSolve
    /\ IdlePure
    /\ IdleApp

SpecCache == InitCache /\ [][NextCache]_vars

-----------------------------------------------------------------------------
(* Properties of the gas-phase runs (SpecGas) *)

\* the (tier, duration) of the records in allResults, in order
ResultPairs == [i \in DOMAIN allResults |->
                  <<allResults[i].aeglLevel, allResults[i].timeStr>>]

\* the duration list the caller asked for: selectedTimes, or the durations in
\* the order they first occur among the record's AEGL keys
CallerTimes == IF selectedTimes.given THEN selectedTimes.list
               ELSE getAvailableAeglTimes(compound)

\* index of the first occurrence of x in s, 0 if none
FirstIndex(s, x) ==
    IF x \in Range(s) THEN CHOOSE i \in DOMAIN s : s[i] = x /\ \A j \in 1..(i - 1) : s[j] # x
    ELSE 0

\* the record states a usable limit for the pair: the key exists and holds a
\* number above zero
HasUsableLimit(c, t, d) ==
    \E i \in DOMAIN c.aegl :
        /\ c.aegl[i].tier = t /\ c.aegl[i].dur = d
        /\ c.aegl[i].val.k = "num" /\ c.aegl[i].val.v > 0

\* the record is missing none of the parameters analyzeSingleAegl reads
IsComplete(c) ==
    /\ \A x \in {c.MW, c.henryConstant, c.vaporPressure, c.solubility} : IsNum(x) /\ x.v > 0
    /\ IsNum(ResolvedLogKow(c))
    /\ c.Name = Str /\ c.CAS = Str

\* C1 (as claimed): the results are ordered by tier ascending and, within a
\* tier, in the order of the caller's duration list (or of first occurrence among
\* the record's AEGL keys when no list is given).
C1_ResultsInCallerOrder ==
    pc = "returned" =>
        \A i, j \in DOMAIN allResults :
            i < j => \/ allResults[i].aeglLevel < allResults[j].aeglLevel
                     \/ /\ allResults[i].aeglLevel = allResults[j].aeglLevel
                        /\ FirstIndex(CallerTimes, allResults[i].timeStr)
                             < FirstIndex(CallerTimes, allResults[j].timeStr)

\* C2 (as claimed): a failure of analyzeSingleAegl on one pair never aborts the
\* run: no exception escapes analyzeAllAegls, so every started run returns, with
\* a record for every requested pair that has a usable limit.
C2_NoExceptionEscapes ==
    /\ pc # "raised"
    /\ exc = NoExc

C4_OneResultPerValidPair ==
    LET wanted == {<<t, d>> \in AeglLevels \X (Range(CallerTimes) \cap
                                 {compound.aegl[i].dur : i \in DOMAIN compound.aegl}) :
                      HasUsableLimit(compound, t, d)}
    IN  /\ pc = "returned" =>
              /\ Range(ResultPairs) = wanted
              /\ Len(allResults) = Cardinality(wanted)
              /\ \A i \in DOMAIN allResults :
                    allResults[i].aegl = AeglEntry(compound, allResults[i].aeglLevel,
                                                   allResults[i].timeStr)
        /\ IsComplete(compound) => pc # "raised"

\* C4 witness: a returned run whose argument list repeats a duration and names
\* one the record has no key for, with a pair left out and a pair reported
C4_Witness ==
    /\ pc = "returned"
    /\ selectedTimes.given
    /\ ~IsInjective(selectedTimes.list)
    /\ Len(allResults) > 0
    /\ \E t \in AeglLevels, d \in Range(timesToAnalyze) : ~HasUsableLimit(compound, t, d)

\* C6 (as claimed): analyzeSingleAegl on a record with a usable limit, MW and
\* logKow but an absent or null Henry's constant completes and returns a result.
C6_HenryFallbackInGasPath ==
    ( /\ lastCall.level # 0
      /\ HasUsableLimit(compound, lastCall.level, lastCall.timeStr)
      /\ compound.henryConstant \in {Absent, None}
      /\ IsComplete([compound EXCEPT !.henryConstant = Num(3)]) )
    => lastCall.kind = "result"

-----------------------------------------------------------------------------
(* Properties of the aqueous runs (SpecAq) *)

\* the stages of _run_single_from_row from the vapor root search on
SolveStages == {"findTimeToDose vapor", "findTimeToDose liquid", "makePlotlyFigures"}

IsPositiveLimit(x) == x.k = "num" /\ x.v > 0

\* C5 (as claimed): a target whose limit is zero or negative is treated like a
\* missing one: it is not among the targets of the run, the root search is never
\* started for it, and merged holds no figure of it.
C5_NonPositiveLimitNeverSolved ==
    /\ \A i \in DOMAIN available :
          IsPositiveLimit(AeglEntry(row, available[i][1], available[i][2]))
    /\ lastRun.stage \in SolveStages =>
          IsPositiveLimit(AeglEntry(row, lastRun.tier, lastRun.dur))
    /\ \A key \in merged : IsPositiveLimit(AeglEntry(row, key[1], key[2]))

\* Henry's constant is unavailable: no key, None, NaN, zero or negative
HenryUnavailable(H) == H.k \in {"absent", "none", "nan"} \/ (H.k = "num" /\ H.v <= 0)

\* MW and logP are there to be read, and MW is not zero
RowParametersSound(r) ==
    IsIntOrFloat(r.MW) /\ r.MW # Num(0) /\ IsIntOrFloat(r.logP)

\* C7: for a row whose MW and logP can be read, initParamsFromRow never raises,
\* whatever henryConstant is: hcp is 1/1000 when henryConstant is absent, None,
\* NaN, zero or negative and (1/H)/1000 otherwise, kwg = hcp*R*T and
\* kscg = kscw*kwg, and _run_single_from_row goes on to the root search.
C7_HenryFallback ==
    (lastRun.stage \notin {"", "pickAegl"} /\ RowParametersSound(row)) =>
        /\ lastRun.stage \in SolveStages
        /\ lastRun.p.hcp = IF HenryUnavailable(row.henryConstant)
                           THEN <<1, 1000>>
                           ELSE <<1, 1000 * row.henryConstant.v>>
        /\ lastRun.p.kwg = <<lastRun.p.hcp, <<821, 10000>>, <<5963, 20>>>>
        /\ lastRun.p.kscg = <<lastRun.p.kscw>> \o lastRun.p.kwg
        /\ ~ProductIsNaN(lastRun.p.kwg)

\* C7 witness: a row without the henryConstant key went through both root
\* searches to its figures with hcp = 1/1000
C7_Witness ==
    /\ row.henryConstant = Absent
    /\ lastRun.stage = "makePlotlyFigures"
    /\ lastRun.exc = NoExc
    /\ lastRun.p.hcp = <<1, 1000>>
    /\ \E key \in merged : key[1] = lastRun.tier /\ key[2] = lastRun.dur

\* the figure keys of the targets that completed so far
FiguresOfCompleted ==
    UNION {{<<printed[i].tier, printed[i].dur, n>> : n \in FigNames} :
              i \in {j \in DOMAIN printed : printed[j].line = "Model Summary"}}

\* C8: an exception raised while one target is processed never leaves
\* run_all_aegl: the target is skipped, the loop goes on to the next target in
\* order, the call returns after the last target, and merged holds exactly the
\* four figures of every target that completed.
C8_FailedTargetIsSkipped ==
    /\ aqPc = "raised" => available = <<>> /\ lastRun = NoRun
    /\ aqPc \in {"loop", "return", "returned"} =>
          /\ Len(printed) = aIdx - 1
          /\ aIdx <= Len(available) + 1
          /\ \A i \in DOMAIN printed :
                /\ printed[i].tier = available[i][1]
                /\ printed[i].dur = available[i][2]
                /\ printed[i].line = "[SKIP]" <=> printed[i].e # NoExc
          /\ merged = FiguresOfCompleted
    /\ aqPc \in {"return", "returned"} => Len(printed) = Len(available)
    /\ lastRun.exc # NoExc =>
          /\ aqPc \in {"loop", "return", "returned"}
          /\ printed[Len(printed)].line = "[SKIP]"
          /\ printed[Len(printed)].tier = lastRun.tier
          /\ printed[Len(printed)].dur = lastRun.dur

\* C8 witness: a returned run whose first target failed in the vapor root
\* search and whose later target completed and has its figures in merged
C8_Witness ==
    /\ aqPc = "returned"
    /\ \E i, j \in DOMAIN printed :
          /\ i < j
          /\ printed[i].line = "[SKIP]"
          /\ printed[i].stage = "findTimeToDose vapor"
          /\ printed[i].e = "RuntimeError"
          /\ printed[j].line = "Model Summary"
          /\ <<printed[j].tier, printed[j].dur, "vaporFlux">> \in merged

\* C9 (as claimed): in the returned data a target whose root search was
\* attempted and failed is represented by an entry of its own (a failure
\* marker), so that it differs from a target without a limit, which has none.
C9_FailedTargetIsMarked ==
    aqPc = "returned" =>
        \A i \in DOMAIN printed :
            (printed[i].line = "[SKIP]"
               /\ printed[i].stage \in {"findTimeToDose vapor", "findTimeToDose liquid"})
            => \E key \in merged : key[1] = printed[i].tier /\ key[2] = printed[i].dur

-----------------------------------------------------------------------------
(* Properties of the reactivity calls (SpecReact) *)

\* C10 (as claimed): analyze_reactivity and predict_kr return without raising
\* for every record, SMILES, class, MW or logP absent or None included; without
\* a usable structure the profile has no reactive groups, leaving group Other
\* and oxime reactivity Negligible.
C10_ReactivityIsTotal ==
    /\ rPc # "raised"
    /\ rExc = NoExc
    /\ (rPc \in {"analyzed", "predicted"} /\ GetSmiles(rCompound.SMILES).k # "mol") =>
          /\ reactivity.reactiveGroups = <<>>
          /\ reactivity.leavingGroup = "Other"
          /\ reactivity.oximeReactivity = "Negligible"

\* two fractions are the same number
SameNumber(a, b) == a[1] * b[2] = b[1] * a[2]

\* MW or logP is a finite number
FiniteNumber(x) == x.k \in {"num", "dec4"}

\* C11: for a record with finite MW and logP, whatever its class and leaving
\* group, predicted_kr is a number in [0.00001, 10.0], and it is at most 0.005
\* when the class is neither "Nerve agent" nor "Blister agent" (a missing
\* class included).
C11_KrWithinBounds ==
    (rPc = "predicted" /\ FiniteNumber(rCompound.MW) /\ FiniteNumber(rCompound.logP)) =>
        /\ krPrediction.predicted_kr.k = "e-7"
        /\ krPrediction.predicted_kr.v >= 100
        /\ krPrediction.predicted_kr.v <= 100000000
        /\ rCompound.class \notin {"Nerve agent", "Blister agent"} =>
              krPrediction.predicted_kr.v <= 50000

\* C11 witness: a record without a class whose product of line 103 is above
\* 0.005 was predicted at exactly 0.005
C11_Witness ==
    /\ rPc = "predicted"
    /\ rCompound.class = "<absent>"
    /\ FiniteNumber(rCompound.MW) /\ FiniteNumber(rCompound.logP)
    /\ krPrediction.factors.finalKr > 50000
    /\ krPrediction.predicted_kr = Kr(50000)

\* C12 (as claimed): the logP penalty is evaluated at the record's own logP
\* whenever the record has one, zero and negative values included; it is 1 only
\* at logP = 0.3; the default 0.3 is used only for an absent or null logP.
C12_PenaltyAtOwnLogP ==
    rPc = "predicted" =>
        /\ FiniteNumber(rCompound.logP) =>
              /\ SameNumber(krPrediction.factors.logP, ToFloat(rCompound.logP))
              /\ krPrediction.factors.logP_penalty = 1000
                    <=> SameNumber(ToFloat(rCompound.logP), <<3, 10>>)
        /\ rCompound.logP \in {Absent, None} =>
              /\ SameNumber(krPrediction.factors.logP, <<3, 10>>)
              /\ krPrediction.factors.logP_penalty = 1000

\* C13: predicted_kr is base x logP penalty x MW penalty x steric factor (Low
\* 1.0, Medium 0.7, High 0.4), capped at 0.005 for a class that is neither
\* agent, then clamped to [0.00001, 10.0]; for MW = 140, logP = 0.3, leaving
\* group Cl and class "Nerve agent" both penalties are 1, the steric factor is
\* 1.0 and the result is 0.1 with confidence High.
C13_KrPipeline ==
    (rPc = "predicted" /\ krPrediction.predicted_kr # NaN) =>
        LET f == krPrediction.factors
            sa == CASE reactivity.steric = "Low" -> <<1, 1>>
                    [] reactivity.steric = "Medium" -> <<7, 10>>
                    [] reactivity.steric = "High" -> <<2, 5>>
            product == (((((Units7(f.baseKr) * f.logP_penalty) \div 1000)
                           * f.mw_penalty) \div 1000) * sa[1]) \div sa[2]
            capped == IF rCompound.class \in {"Nerve agent", "Blister agent"}
                      THEN product ELSE Min2(product, 50000)
        IN  /\ SameNumber(f.steric_adj, sa)
            /\ f.finalKr = product
            /\ krPrediction.predicted_kr = Kr(Max2(Min2(capped, 100000000), 100))
            /\ ( /\ rCompound.MW = Num(140) /\ rCompound.logP = Dec4(3000)
                 /\ reactivity.leavingGroup = "Cl"
                 /\ rCompound.class = "Nerve agent" )
               => /\ f.logP_penalty = 1000 /\ f.mw_penalty = 1000
                  /\ SameNumber(f.steric_adj, <<1, 1>>)
                  /\ krPrediction.predicted_kr = Kr(1000000)
                  /\ krPrediction.confidence = "High"

\* C13 witness: the record with MW = 140, logP = 0.3, leaving group Cl and class
\* "Nerve agent" was predicted at 0.1
C13_Witness ==
    /\ rPc = "predicted"
    /\ rCompound.MW = Num(140) /\ rCompound.logP = Dec4(3000)
    /\ rCompound.class = "Nerve agent"
    /\ reactivity.leavingGroup = "Cl"
    /\ krPrediction.predicted_kr = Kr(1000000)

\* C14: the base rate constant is 0.1, 0.2, 0.05, 0.01, 0.005 for leaving group
\* Cl, Br, F, CN, S; for any other leaving group it is 0.001 x reactiveScore,
\* reactiveScore being the class table value, 0.001 for a class the table does
\* not have, which is the value of its "Other" entry.
C14_BaseRateTable ==
    LET cls == rCompound.class
        score == CASE cls = "Nerve agent" -> <<1, 1>>
                   [] cls = "Blister agent" -> <<2, 5>>
                   [] cls = "Nitroaromatic" -> <<1, 20>>
                   [] cls = "Ketone" -> <<1, 500>>
                   [] OTHER -> <<1, 1000>>
        lg == reactivity.leavingGroup
    IN  /\ rPc \in {"analyzed", "predicted"} =>
              /\ SameNumber(reactivity.reactiveScore, score)
              /\ cls \notin {"Nerve agent", "Blister agent", "Nitroaromatic", "Ketone"}
                    => reactivity.reactiveScore = class_reactivity_factors("Other")
        /\ rPc = "predicted" =>
              SameNumber(krPrediction.factors.baseKr,
                  CASE lg = "Cl" -> <<1, 10>>
                    [] lg = "Br" -> <<1, 5>>
                    [] lg = "F"  -> <<1, 20>>
                    [] lg = "CN" -> <<1, 100>>
                    [] lg = "S"  -> <<1, 200>>
                    [] OTHER -> <<score[1], 1000 * score[2]>>)

\* C14 witness: a record of a class the table does not have, with leaving
\* group Other, got the base 0.001 x 0.001; its structure matches no atom
C14_Witness ==
    /\ rPc = "predicted"
    /\ rCompound.class = "Solvent"
    /\ rCompound.SMILES.k = "mol"
    /\ reactivity.leavingGroup = "Other"
    /\ SameNumber(krPrediction.factors.baseKr, <<1, 1000000>>)

\* C15: the confidence label is "High" exactly when the record's class is
\* "Nerve agent", and "Low" otherwise (no class, "Blister agent" and another
\* spelling included); there is no third label.
C15_ConfidenceLabel ==
    rPc = "predicted" =>
        /\ krPrediction.confidence \in {"High", "Low"}
        /\ krPrediction.confidence = "High" <=> rCompound.class = "Nerve agent"

\* C15 witness: a "Blister agent" record was predicted with confidence Low
C15_Witness ==
    /\ rPc = "predicted"
    /\ rCompound.class = "Blister agent"
    /\ krPrediction.confidence = "Low"

\* the structure analyze_reactivity works on, NoneSmiles when there is none
UsedMol == IF rCompound.SMILES.k = "mol" THEN rCompound.SMILES ELSE NoneSmiles

\* C16: the leaving group is the first match in the order F, Cl, Br, CN, S,
\* and Other when nothing matches or there is no structure; exactly one label
\* is produced.
C16_LeavingGroupCascade ==
    rPc \in {"analyzed", "predicted"} =>
        LET order == <<"F", "Cl", "Br", "CN", "S">>
            matches(l) == CASE l = "F" -> {"[F-]", "F"} \cap UsedMol.atoms # {}
                            [] l = "CN" -> "C#N" \in UsedMol.atoms
                            [] OTHER -> l \in UsedMol.atoms
            lg == reactivity.leavingGroup
        IN  /\ lg \in Range(order) \cup {"Other"}
            /\ lg = "Other" <=> \A i \in DOMAIN order : ~matches(order[i])
            /\ \A i \in DOMAIN order :
                  lg = order[i] <=> (matches(order[i])
                                       /\ \A j \in 1..(i - 1) : ~matches(order[j]))

\* C16 witness: a molecule matching the fluorine and the chlorine pattern
\* resolved to F
C16_Witness ==
    /\ rPc = "analyzed"
    /\ {"F", "Cl"} \subseteq UsedMol.atoms
    /\ reactivity.leavingGroup = "F"

\* C17: oxime reactivity is High when Organophosphorus was detected, Moderate
\* when it was not and Carbonyl or Nitro was, Negligible otherwise; the
\* reactive-group list holds each matched label once, in pattern order.
C17_OximeAndGroupOrder ==
    rPc \in {"analyzed", "predicted"} =>
        LET groups == reactivity.reactiveGroups
            index(l) == CHOOSE i \in DOMAIN PatternLabels : PatternLabels[i] = l
        IN  /\ Range(groups) = UsedMol.groups
            /\ \A i, j \in DOMAIN groups : i < j => index(groups[i]) < index(groups[j])
            /\ reactivity.oximeReactivity =
                  IF "Organophosphorus" \in Range(groups) THEN "High"
                  ELSE IF {"Carbonyl", "Nitro"} \cap Range(groups) # {} THEN "Moderate"
                  ELSE "Negligible"

\* C17 witness: a molecule with Carbonyl, Nitro and Organophosphorus detected
\* got High
C17_Witness ==
    /\ rPc = "analyzed"
    /\ {"Carbonyl", "Nitro", "Organophosphorus"} \subseteq Range(reactivity.reactiveGroups)
    /\ reactivity.oximeReactivity = "High"

\* C18: the steric bucket is Low for MW <= 150, Medium for 150 < MW <= 300 and
\* High above 300 (150 gives Low, 300 gives Medium, a value just above either
\* gives the next bucket); every MW gets exactly one of the three buckets.
C18_StericBuckets ==
    rPc \in {"analyzed", "predicted"} =>
        LET mw == rCompound.MW
            tenThousandths == IF mw.k = "num" THEN mw.v * 10000 ELSE mw.v
        IN  /\ reactivity.steric \in {"Low", "Medium", "High"}
            /\ FiniteNumber(mw) =>
                  reactivity.steric =
                      IF tenThousandths <= 1500000 THEN "Low"
                      ELSE IF tenThousandths <= 3000000 THEN "Medium"
                      ELSE "High"

\* C18 witness: MW = 300 gave Medium
C18_Witness ==
    /\ rPc = "analyzed"
    /\ rCompound.MW = Num(300)
    /\ reactivity.steric = "Medium"

\* the root_scalar calls made with the given method
CallsOf(method) == {i \in DOMAIN solverCalls : solverCalls[i].method = method}

\* C19 (as claimed): findTimeToDose does a fixed worst-case amount of work: at
\* most 40 expansions, each multiplying hi by 1.5, ending as soon as the
\* product of the end values is no longer positive; then at most one bracketed
\* and one open solve, each given an iteration ceiling by findTimeToDose.
C19_FixedWorstCaseWork ==
    /\ sTries <= MaxTries
    /\ sPc \notin {"idle", "start"} =>
          /\ sHi = HiOf(IF sArgs.x0 > 1 THEN sArgs.x0 ELSE 1, sTries)
          /\ \A n \in 0..(sTries - 1) : ProductPositive(sArgs, n)
    /\ sPc \in {"bracketed", "open", "returned", "raised"} =>
          sTries = MaxTries \/ ~ProductPositive(sArgs, sTries)
    /\ Cardinality(CallsOf("brentq")) <= 1
    /\ Cardinality(CallsOf("newton")) <= 1
    /\ \A i \in DOMAIN solverCalls : "maxiter" \in solverCalls[i].kwargs

\* C20 (as claimed): with a sign change across [lo, hi] at the end of the
\* expansion the bracketed solver runs and its root is returned; the open
\* method runs only when no sign change was found, seeded at the caller's x0,
\* and its root is returned only if it converged and is >= 0; otherwise
\* RuntimeError is raised.
C20_SolverSelection ==
    sPc \in {"returned", "raised"} =>
        LET signChange == /\ sArgs.cross # NoCross
                          /\ sArgs.product \in {"signChange", "zeroAtEnd"}
        IN  IF signChange
            THEN /\ solverCalls = <<SolverCall("brentq", {"bracket"}, sHi)>>
                 /\ sOut = [kind |-> "root", solver |-> "brentq", exc |-> NoExc]
            ELSE /\ solverCalls = <<SolverCall("newton", {"x0"}, HiOf(sArgs.x0, 0))>>
                 /\ IF sArgs.newton = "root"
                    THEN sOut = [kind |-> "root", solver |-> "newton", exc |-> NoExc]
                    ELSE sOut.kind = "raise" /\ sOut.exc = "RuntimeError"

\* C22: each steady-state flux function is a two-valued step: exactly 0 for
\* every t <= tLag, and for every t > tLag the one value a1 * k * hsc * cv *
\* dsc / hsc^2, which does not depend on t.
C22_FluxIsAStep ==
    (fnPc = "done" /\ fnArgs.fn \in {"fluxVaporSteady", "fluxLiquidSteady",
                                     "fluxSteadyState"}) =>
        LET a == fnArgs
            base == FluxBase(ExposedAreaA1, a.k, SkinThicknessHsc, a.cv, a.dsc)
            atOrBefore == ~IsNaNQ(a.tt) /\ ~IsNaNQ(a.tLag)
                             /\ a.tt[1] * a.tLag[2] <= a.tLag[1] * a.tt[2]
            after == ~IsNaNQ(a.tt) /\ ~IsNaNQ(a.tLag)
                        /\ a.tt[1] * a.tLag[2] > a.tLag[1] * a.tt[2]
        IN  /\ fnOut.exc = NoExc
            /\ atOrBefore => fnOut.value = <<0, 1>>
            /\ after => fnOut.value = base
            /\ fnOut.value \in {<<0, 1>>, base}

\* C22 witness: a flux function was evaluated at t = tLag with a positive base
\* and returned 0
C22_Witness ==
    /\ fnPc = "done"
    /\ fnArgs.fn = "fluxSteadyState"
    /\ fnArgs.tt = fnArgs.tLag /\ ~IsNaNQ(fnArgs.tt)
    /\ fnArgs.cv[1] > 0
    /\ fnOut.value = <<0, 1>>

\* C23 (as claimed): both lookups give 8, 4, 1, 0.5 and 1/6 hours for 8hr,
\* 4hr, 60min, 30min and 10min, and a label outside these five gets no
\* exposure time and is not solved.
C23_HoursOnlyForFiveLabels ==
    (fnPc = "done" /\ fnArgs.fn \in {"timeStringToHours", "durMap"}) =>
        LET label == fnArgs.label
        IN  IF label \in {"8hr", "4hr", "60min", "30min", "10min"}
            THEN /\ fnOut.exc = NoExc
                 /\ fnOut.solved
                 /\ fnOut.value = CASE label = "8hr"   -> <<8, 1>>
                                    [] label = "4hr"   -> <<4, 1>>
                                    [] label = "60min" -> <<1, 1>>
                                    [] label = "30min" -> <<1, 2>>
                                    [] label = "10min" -> <<1, 6>>
            ELSE /\ IsNaNQ(fnOut.value)
                 /\ ~fnOut.solved


\* the canonical order of the durations, longest first
CanonicalDurations == <<"8hr", "4hr", "60min", "30min", "10min">>

\* the (tier, duration) pairs of the keys of r that name a tier of 1..3 and a
\* canonical duration and whose cell is not NaN
MatchingTargets(r) ==
    {<<r.aegl[i].tier, r.aegl[i].dur>> :
        i \in {j \in DOMAIN r.aegl :
                  /\ r.aegl[j].tier \in {1, 2, 3}
                  /\ r.aegl[j].dur \in Range(CanonicalDurations)
                  /\ r.aegl[j].val.k \notin {"nan", "none"}}}

\* r with its keys in the order p
Reordered(r, p) == [r EXCEPT !.aegl = [i \in DOMAIN r.aegl |-> r.aegl[p[i]]]]

\* C24: list_available_aegl_targets returns every matching key with a non-NaN
\* cell exactly once, sorted by tier and then by the canonical order of the
\* durations, whatever the order of the keys in the row; run_all_aegl processes
\* the targets in that order.
C24_TargetsSortedOnce ==
    aqPc # "start" =>
        /\ Range(available) = MatchingTargets(row)
        /\ \A i, j \in DOMAIN available :
              /\ available[i] = available[j] => i = j
              /\ i < j =>
                    \/ available[i][1] < available[j][1]
                    \/ /\ available[i][1] = available[j][1]
                       /\ \E m, n \in DOMAIN CanonicalDurations :
                             /\ m < n
                             /\ CanonicalDurations[m] = available[i][2]
                             /\ CanonicalDurations[n] = available[j][2]
        /\ \A p \in Perms(DOMAIN row.aegl) :
              list_available_aegl_targets(Reordered(row, p)) = available
        /\ \A i \in DOMAIN printed :
              printed[i].tier = available[i][1] /\ printed[i].dur = available[i][2]

\* C24 witness: a returned run over a row whose two keys were stored in the
\* opposite of the sorted order and that processed both targets
C24_Witness ==
    /\ aqPc = "returned"
    /\ Len(printed) = 2
    /\ <<row.aegl[1].tier, row.aegl[1].dur>> = available[2]
    /\ <<row.aegl[2].tier, row.aegl[2].dur>> = available[1]
    /\ <<printed[1].tier, printed[1].dur>> = available[1]

\* C25 (as claimed): the search of analyzeSingleAegl first tries a bracket from
\* 0 to its guess of 100, and calls the open method only after the bracketing
\* attempt found no sign change.
C25_BracketingFirst ==
    lastCall.solved =>
        /\ lastCall.search # <<>>
        /\ lastCall.search[1].method = "brentq"
        /\ \A i \in DOMAIN lastCall.search :
              lastCall.search[i].method = "newton" =>
                  \E j \in 1..(i - 1) : lastCall.search[j].method = "brentq"

\* the record has an AEGL key and none of the five required parameters is
\* None, "" or "undefined" (read off the record, not through hasAeglSupport)
HasAeglKeyAndParams(c) ==
    /\ c.aegl # <<>>
    /\ \A x \in {c.MW, c.logKow, c.henryConstant, c.vaporPressure, c.solubility} :
          x.k \notin {"absent", "none", "empty", "undefined"}

\* the gate of getCompoundAnalysis: analyzeAllAegls is called exactly for the
\* records with an AEGL key and the five parameters, and the others get
\* available = false with the reason, the missing AEGL keys named first
GateByAeglSupport ==
    (appPc \in {"returned", "raised"} /\ appCompound.found) =>
        /\ appOut.solverInvoked => HasAeglKeyAndParams(appCompound)
        /\ (appOut.kind = "result" /\ HasAeglKeyAndParams(appCompound)) =>
              appOut.solverInvoked /\ appOut.aeglAnalysis.available
        /\ (appOut.kind = "result" /\ ~HasAeglKeyAndParams(appCompound)) =>
              /\ ~appOut.aeglAnalysis.available
              /\ appOut.aeglAnalysis.reason =
                    IF appCompound.aegl = <<>> THEN "No AEGL values found."
                    ELSE "Missing parameters"
              /\ appCompound.aegl # <<>> => appOut.aeglAnalysis.missing # <<>>

\* C26 (as claimed): getCompoundAnalysis calls analyzeAllAegls only for records
\* with an AEGL key and the five parameters, reports available = false with the
\* reason otherwise, and in both cases returns the reactivity profile and the
\* rate-constant prediction of the compound.
C26_GateAndAlwaysReturn ==
    /\ GateByAeglSupport
    /\ (appPc \in {"returned", "raised"} /\ appCompound.found) =>
          /\ appOut.kind = "result"
          /\ appOut.reactivity # NoReactivity
          /\ appOut.krPrediction # NoPrediction

\* the figure names under which merged has a key AEGL<tier>_<dur>_<name>
FiguresOf(tier, dur) == {n \in FigNames : <<tier, dur, n>> \in merged}

\* C27: for every target the map of run_all_aegl has all four keys
\* AEGL<tier>_<dur>_{vaporAbsorption, liquidAbsorption, vaporFlux, liquidFlux} or
\* none of them, and none exactly when a step of the target raised; a target
\* whose vapor search succeeded and whose liquid search failed has no vapor
\* figures either.
C27_FourFiguresOrNone ==
    /\ \A t \in Range(available) :
          FiguresOf(t[1], t[2]) \in {{}, {"vaporAbsorption", "liquidAbsorption",
                                         "vaporFlux", "liquidFlux"}}
    /\ \A i \in DOMAIN printed :
          /\ FiguresOf(printed[i].tier, printed[i].dur) = {} <=> printed[i].e # NoExc
          /\ printed[i].stage = "findTimeToDose liquid" =>
                <<printed[i].tier, printed[i].dur, "vaporFlux">> \notin merged
    /\ \A k \in merged : <<k[1], k[2]>> \in Range(available)
    /\ aqPc \in {"loop", "return", "returned"} =>
          \A i \in DOMAIN available :
              i > Len(printed) => FiguresOf(available[i][1], available[i][2]) = {}

\* C27 witness: a returned run with a target whose vapor search succeeded and
\* whose liquid search failed, which has no key in the map, and a target that
\* completed, which has all four
C27_Witness ==
    /\ aqPc = "returned"
    /\ \E i, j \in DOMAIN printed :
          /\ printed[i].stage = "findTimeToDose liquid"
          /\ printed[i].e # NoExc
          /\ FiguresOf(printed[i].tier, printed[i].dur) = {}
          /\ printed[j].e = NoExc
          /\ FiguresOf(printed[j].tier, printed[j].dur) = FigNames

\* C28 (as claimed): a chart returned by getGlobalScatterGraph is computed from
\* the contents the data file has at the call, so after a modification of the
\* file no call returns a chart of older compound data.
C28_ChartOfCurrentFile ==
    lastChart.chart.kind = "chart" => lastChart.chart.data = lastChart.fileData

\* C29: a call that read the modification time returns the cached chart without
\* going through the rows exactly when a chart is cached and the stored time
\* equals the one read; in every other case it goes through the rows; and after
\* a recomputation that succeeded the cache holds the returned chart with the
\* modification time read in that call.
C29_CachedIffSameMtime ==
    lastChart.mtime # NoMtime =>
        LET hit == /\ lastChart.before.json # NoChart
                   /\ lastChart.before.last_modified = lastChart.mtime
        IN  /\ hit <=> ~lastChart.recomputed
            /\ hit => /\ lastChart.chart = lastChart.before.json
                      /\ global_scatter_cache = lastChart.before
            /\ (lastChart.recomputed /\ lastChart.chart.kind = "chart") =>
                  /\ global_scatter_cache.json = lastChart.chart
                  /\ global_scatter_cache.last_modified = lastChart.mtime

\* C29 witness: a call found a chart cached under an older modification time,
\* went through the rows again and stored the new chart under the time it read
C29_Witness ==
    /\ lastChart.before.json # NoChart
    /\ lastChart.before.last_modified # lastChart.mtime
    /\ lastChart.mtime # NoMtime
    /\ lastChart.recomputed
    /\ lastChart.chart.kind = "chart"
    /\ global_scatter_cache.last_modified = lastChart.mtime

\* C30: a call that fails (the data file missing, a prediction or rendering
\* error) returns an error chart and leaves both cache fields as they were
\* before the call; an error chart is never stored; and the two cache fields
\* are both unset or both set.
C30_FailureLeavesCache ==
    /\ (lastChart.mtime = NoMtime /\ lastChart.chart # NoChart) =>
          lastChart.chart.kind = "error"
    /\ lastChart.chart.kind = "error" => global_scatter_cache = lastChart.before
    /\ global_scatter_cache.json.kind # "error"
    /\ global_scatter_cache.json = NoChart <=>
          global_scatter_cache.last_modified = NoMtime

\* C30 witness: a call failed with a chart cached, and the cache is as the call
\* found it
C30_Witness ==
    /\ lastChart.chart.kind = "error"
    /\ lastChart.before.json.kind = "chart"
    /\ global_scatter_cache = lastChart.before
====
